---- MODULE Spec2Model ----
(***************************************************************************)
(* Model of the rainfall "forecast" dashboard (src/app.py) and its helper  *)
(* module (src/ana_streamlit_data.py).                                     *)
(*                                                                         *)
(* Numbers.  A Python float is modelled as a one-element tuple <<n>> whose *)
(* integer n counts tenths of the unit (28.0 degrees = <<280>>), and the   *)
(* missing value NaN as the empty tuple <<>>.  Every comparison with NaN   *)
(* is false and every sum with NaN is NaN, as in Python.                   *)
(***************************************************************************)
EXTENDS Integers, Sequences, FiniteSets, TLC

VARIABLES
    pc,            \* which operation ran last
    data,          \* validate_meteorological_data: the dict it is given
    vres,          \* validate_meteorological_data: what it returned
    rangeCall,     \* the call of validate_temperature_range it made, if any
    df_input,      \* the table given to the feature and forecast functions
    feat,          \* create_features_enhanced: what it returned and showed
    pred,          \* make_prediction_enhanced: its arguments and what it returned
    fetch,         \* app.fetch_ana_station_data: one run of its body
    base_metrics,  \* calculate_enhanced_metrics: the dict it works on
    metricsCall,   \* calculate_enhanced_metrics: the latest call and its result
    firstCall,     \* calculate_enhanced_metrics: the first call and its result
    widgets,       \* main: the widget values Streamlit keeps between reruns
    page,          \* main: what the latest rerun rendered and called
    hist,          \* generate_enhanced_historical_data: one call
    sim,           \* ana_streamlit_data.fetch_ana_station_data: one call
    lookup,        \* one municipality looked up in the per-city tables
    cache,         \* st.cache_data around app.fetch_ana_station_data
    twin           \* main: a second session, alike but for the ANA data fetched

valVars == <<data, vres, rangeCall>>

featVars == <<df_input, feat, pred>>

metricsVars == <<base_metrics, metricsCall, firstCall>>

appVars == <<widgets, page>>

moreVars == <<hist, sim, lookup, cache, twin>>

vars == <<pc, valVars, featVars, fetch, metricsVars, appVars, moreVars>>

(***************************************************************************)
(* Floats                                                                  *)
(***************************************************************************)
NaN == <<>>

F(n) == <<n>>

IsNaN(x) == x = NaN

Lt(a, b) == ~IsNaN(a) /\ ~IsNaN(b) /\ a[1] < b[1]

Gt(a, b) == ~IsNaN(a) /\ ~IsNaN(b) /\ a[1] > b[1]

Ge(a, b) == ~IsNaN(a) /\ ~IsNaN(b) /\ a[1] >= b[1]

\* In place of a value: the key is not in the dict, the tag not in the record.
Absent == <<0, 0>>

(***************************************************************************)
(* Bounds of the inputs                                                    *)
(***************************************************************************)
\* How many tenths around each validation threshold the inputs cover.
Margin == 1

\* Rows of the tables given to create_features_enhanced alone.
MaxRows == 2

\* Rows of the tables given to make_prediction_enhanced.
MaxPredRows == 1

\* Days a forecast is asked for.
MaxDays == 2

\* The longest forecast period calculate_enhanced_metrics is called with.
MaxMetricDays == 9

\* Calls of calculate_enhanced_metrics in one run of the model.
MaxMetricCalls == 3

\* Rows of an uploaded CSV file.
MaxCsvRows == 2

\* Records in one response of the hydrology service.
MaxItems == 2

\* The two draws of np.random.normal(0, 1.5) considered, in 1/5000 mm.
NoiseMax == 30000

Around(t) == { F(n) : n \in (t - Margin)..(t + Margin) }

(***************************************************************************)
(* src/app.py: validation                                                  *)
(***************************************************************************)
MsgTempMax == "Temperatura maxima fora da faixa valida (-50C a 60C)"
MsgTempMin == "Temperatura minima fora da faixa valida (-60C a 50C)"
MsgTempOrder == "Temperatura minima deve ser menor que a maxima"
MsgUmidade == "Umidade deve estar entre 0% e 100%"
MsgPressao == "Pressao atmosferica deve estar entre 800 hPa e 1100 hPa"
MsgVento == "Velocidade do vento deve estar entre 0 m/s e 200 m/s"

\* Faulty variant: a missing temperature is rejected.
validate_temperature_range_strict(temp_max, temp_min) ==
    IF IsNaN(temp_max) \/ Lt(temp_max, F(-500)) \/ Gt(temp_max, F(600))
    THEN <<FALSE, MsgTempMax>>
    ELSE IF IsNaN(temp_min) \/ Lt(temp_min, F(-600)) \/ Gt(temp_min, F(500))
    THEN <<FALSE, MsgTempMin>>
    ELSE IF Ge(temp_min, temp_max) THEN <<FALSE, MsgTempOrder>>
    ELSE <<TRUE, "">>

validate_temperature_range(temp_max, temp_min) ==
    IF Lt(temp_max, F(-500)) \/ Gt(temp_max, F(600)) THEN <<FALSE, MsgTempMax>>
    ELSE IF Lt(temp_min, F(-600)) \/ Gt(temp_min, F(500)) THEN <<FALSE, MsgTempMin>>
    ELSE IF Ge(temp_min, temp_max) THEN <<FALSE, MsgTempOrder>>
    ELSE <<TRUE, "">>

Has(d, k) == k \in DOMAIN d

\* errors.append(...) of each of the four groups, in the order of the code.
TempErrors(d) ==
    IF Has(d, "temp_max") /\ Has(d, "temp_min")
    THEN LET r == validate_temperature_range(d["temp_max"], d["temp_min"])
         IN  IF ~r[1] THEN <<r[2]>> ELSE <<>>
    ELSE <<>>

\* Faulty variant: the upper bound is tested with >= instead of >.
UmidadeErrors_strict(d) ==
    IF Has(d, "umidade") /\ (Lt(d["umidade"], F(0)) \/ Ge(d["umidade"], F(1000)))
    THEN <<MsgUmidade>> ELSE <<>>

UmidadeErrors(d) ==
    IF Has(d, "umidade") /\ (Lt(d["umidade"], F(0)) \/ Gt(d["umidade"], F(1000)))
    THEN <<MsgUmidade>> ELSE <<>>

PressaoErrors(d) ==
    IF Has(d, "pressao") /\ (Lt(d["pressao"], F(8000)) \/ Gt(d["pressao"], F(11000)))
    THEN <<MsgPressao>> ELSE <<>>

VentoErrors(d) ==
    IF Has(d, "vel_vento") /\ (Lt(d["vel_vento"], F(0)) \/ Gt(d["vel_vento"], F(2000)))
    THEN <<MsgVento>> ELSE <<>>

validate_meteorological_data(d) ==
    LET errors == TempErrors(d) \o UmidadeErrors(d) \o PressaoErrors(d) \o VentoErrors(d)
    IN  <<Len(errors) = 0, errors>>

(***************************************************************************)
(* Tables.  A DataFrame is a sequence of rows; a row is a record with one  *)
(* field per column.  A raw date cell is <<d>> for text that parses to day *)
(* d of the year, Garbled for text that is no date, NaN for an empty cell. *)
(***************************************************************************)
Garbled == <<0, 0, 0>>

NaT == NaN

\* pd.to_datetime(..., errors='coerce') of one cell (line 129).
to_datetime_coerce(cell) == IF Len(cell) = 1 THEN cell ELSE NaT

\* index.month of a day of the (non-leap) year (line 150).
MonthOf(d) ==
    CASE d <= 31 -> 1   [] d <= 59 -> 2   [] d <= 90 -> 3   [] d <= 120 -> 4
      [] d <= 151 -> 5  [] d <= 181 -> 6  [] d <= 212 -> 7  [] d <= 243 -> 8
      [] d <= 273 -> 9  [] d <= 304 -> 10 [] d <= 334 -> 11 [] OTHER -> 12

numeric_columns == <<"temp_max", "temp_min", "umidade", "pressao", "vel_vento", "rad_solar">>

\* The rows of t at the positions in I, in their order.
SelectIdx(t, I) ==
    LET RECURSIVE Go(_)
        Go(i) == IF i > Len(t) THEN <<>>
                 ELSE (IF i \in I THEN <<t[i]>> ELSE <<>>) \o Go(i + 1)
    IN  Go(1)

Column(t, c) == [i \in 1..Len(t) |-> t[i][c]]

\* df_copy.sort_values(date_column) (line 136), no row has a NaT date here:
\* each row is inserted after the rows whose date is not later (the sort is
\* stable).
InsertByDate(x, s) ==
    LET RECURSIVE Go(_)
        Go(i) == IF i > Len(s) THEN <<x>>
                 ELSE IF s[i].data[1] > x.data[1] THEN <<x>> \o SubSeq(s, i, Len(s))
                 ELSE <<s[i]>> \o Go(i + 1)
    IN  Go(1)

sort_values_by_date(t) ==
    LET RECURSIVE Go(_)
        Go(i) == IF i = 0 THEN <<>> ELSE InsertByDate(t[i], Go(i - 1))
    IN  Go(Len(t))

\* The floats of a sequence without NaN, in increasing order.
InsertFloat(x, s) ==
    LET RECURSIVE Go(_)
        Go(i) == IF i > Len(s) THEN <<x>>
                 ELSE IF s[i][1] > x[1] THEN <<x>> \o SubSeq(s, i, Len(s))
                 ELSE <<s[i]>> \o Go(i + 1)
    IN  Go(1)

SortFloats(col) ==
    LET RECURSIVE Go(_)
        Go(i) == IF i = 0 THEN <<>> ELSE InsertFloat(col[i], Go(i - 1))
    IN  Go(Len(col))

\* Series.median(): the middle of the values that are not NaN, the mean of
\* the two middle ones when their number is even, NaN when there is none.
Median(col) ==
    LET present == SelectIdx(col, {i \in 1..Len(col) : ~IsNaN(col[i])})
        srt == SortFloats(present)
        n == Len(srt)
    IN  IF n = 0 THEN NaN
        ELSE IF n % 2 = 1 THEN srt[(n + 1) \div 2]
        ELSE F((srt[n \div 2][1] + srt[n \div 2 + 1][1]) \div 2)

\* Lines 142..146 for one column: NaN cells become the column's median.
FillMedian(t, c) ==
    LET col == Column(t, c)
        m == Median(col)
    IN  IF \E i \in 1..Len(t) : IsNaN(col[i])
        THEN [i \in 1..Len(t) |-> IF IsNaN(t[i][c]) THEN [t[i] EXCEPT ![c] = m] ELSE t[i]]
        ELSE t

FillNumeric(t) ==
    LET RECURSIVE Go(_)
        Go(k) == IF k = 0 THEN t ELSE FillMedian(Go(k - 1), numeric_columns[k])
    IN  Go(Len(numeric_columns))

FAdd(a, b) == IF IsNaN(a) \/ IsNaN(b) THEN NaN ELSE F(a[1] + b[1])

FSub(a, b) == IF IsNaN(a) \/ IsNaN(b) THEN NaN ELSE F(a[1] - b[1])

FHalf(a) == IF IsNaN(a) THEN NaN ELSE F(a[1] \div 2)

\* Lines 149..158: the calendar and derived columns read downstream or able
\* to hold a NaN.  (ano, dia, dia_ano, dia_semana and the sine and cosine
\* columns are functions of the index alone and never NaN.)
AddFeatures(r) ==
    [data |-> r.data, temp_max |-> r.temp_max, temp_min |-> r.temp_min,
     umidade |-> r.umidade, pressao |-> r.pressao, vel_vento |-> r.vel_vento,
     rad_solar |-> r.rad_solar,
     mes |-> F(MonthOf(r.data[1])),
     temp_media |-> FHalf(FAdd(r.temp_max, r.temp_min)),
     amplitude_termica |-> FSub(r.temp_max, r.temp_min)]

\* fillna(method="bfill") then fillna(method="ffill") (lines 173, 174).
Bfill(t) ==
    LET RECURSIVE Go(_)
        Go(i) ==
            IF i = 0 THEN t
            ELSE LET u == Go(i - 1)
                     j == Len(t) - i + 1
                 IN  IF j = Len(t) THEN u
                     ELSE [u EXCEPT ![j] =
                            [c \in DOMAIN u[j] |->
                               IF c # "data" /\ IsNaN(u[j][c]) THEN u[j + 1][c] ELSE u[j][c]]]
    IN  Go(Len(t))

Ffill(t) ==
    LET RECURSIVE Go(_)
        Go(i) ==
            IF i = 0 THEN t
            ELSE LET u == Go(i - 1)
                 IN  IF i = 1 THEN u
                     ELSE [u EXCEPT ![i] =
                            [c \in DOMAIN u[i] |->
                               IF c # "data" /\ IsNaN(u[i][c]) THEN u[i - 1][c] ELSE u[i][c]]]
    IN  Go(Len(t))

\* df_copy.dropna() (line 177): rows with a NaN in any column go.
HasNaN(r) == \E c \in DOMAIN r : IsNaN(r[c])

dropna(t) == SelectIdx(t, {i \in 1..Len(t) : ~HasNaN(t[i])})

\* st.warning / st.error / st.success / ... : one rendered element, with the
\* line of src/app.py that renders it and the number it shows, if any.
Elem(kind, line, n) == [kind |-> kind, line |-> line, n |-> n]

\* Faulty variant: the warning reports the rows left, not the rows removed.
DateStep_reportsKept(df) ==
    LET conv == [i \in 1..Len(df) |-> [df[i] EXCEPT !.data = to_datetime_coerce(df[i].data)]]
        kept == SelectIdx(conv, {i \in 1..Len(conv) : conv[i].data # NaT})
        initial_rows == Len(conv)
    IN  [table |-> kept,
         msgs |-> IF Len(kept) < initial_rows
                  THEN <<Elem("warning", 134, Len(kept))>>
                  ELSE <<>>]

\* dropna(subset=[date_column]) and the warning (lines 129..134).
DateStep(df) ==
    LET conv == [i \in 1..Len(df) |-> [df[i] EXCEPT !.data = to_datetime_coerce(df[i].data)]]
        kept == SelectIdx(conv, {i \in 1..Len(conv) : conv[i].data # NaT})
        initial_rows == Len(conv)
    IN  [table |-> kept,
         msgs |-> IF Len(kept) < initial_rows
                  THEN <<Elem("warning", 134, initial_rows - Len(kept))>>
                  ELSE <<>>]

\* After line 137 (the moving averages of lines 167..170 need more than 7
\* rows and never produce a NaN from a filled column; they are not modelled).
FeatureBody(dated) ==
    LET sorted == sort_values_by_date(dated)
        filled == FillNumeric(sorted)
        withFeat == [i \in 1..Len(filled) |-> AddFeatures(filled[i])]
    IN  dropna(Ffill(Bfill(withFeat)))

\* create_features_enhanced(df, config) with the config of lines 192..200.
\* `raises`: an exception is raised in the body after the date step (the
\* fillna(method=...) calls of lines 173, 174 are rejected by a pandas that
\* no longer takes the keyword); the handler of lines 181..183 then shows an
\* error and returns the untouched input.
create_features_enhanced(df, raises) ==
    LET step == DateStep(df)
    IN  IF raises
        THEN [ret |-> df, dated |-> step.table, raised |-> TRUE,
              msgs |-> step.msgs \o <<Elem("error", 182, 0)>>]
        ELSE [ret |-> FeatureBody(step.table), dated |-> step.table, raised |-> FALSE,
              msgs |-> step.msgs]

(***************************************************************************)
(* src/app.py: make_prediction_enhanced.  Precipitation is counted in      *)
(* units of 1/5000 mm, in which the baseline of lines 242..248 is an       *)
(* integer for inputs in tenths: with u, t, p the humidity, temperature    *)
(* and pressure in tenths,                                                 *)
(*   500 * (2 + 8*(u/10-50)/50 + 3*(t/10-20)/10 + 2*(1013-p/10)/20 + 2*sf) *)
(*     = 1000 + 8*(u-500) + 15*(t-200) + 5*(10130-p) + 1000*sf             *)
(* and the municipality factor, in tenths, brings the last factor 10.      *)
(***************************************************************************)
\* municipio_factors (lines 227..238), in tenths.
municipio_factors ==
    [Itirapina |-> 10, Santos |-> 13, Cuiaba |-> 8, Natal |-> 12,
     Campinas |-> 11, RibeiraoPreto |-> 9, SaoJoseDosCampos |-> 10,
     Sorocaba |-> 10, Piracicaba |-> 10, Bauru |-> 8, Araraquara |-> 9,
     SaoCarlos |-> 10, Franca |-> 9, PresidentePrudente |-> 8,
     Marilia |-> 9, Aracatuba |-> 8, Botucatu |-> 9, RioClaro |-> 10,
     Limeira |-> 10, Americana |-> 10, Jundiai |-> 10, Taubate |-> 10,
     Guaratingueta |-> 10, Jacarei |-> 10, MogiDasCruzes |-> 10,
     Suzano |-> 11, Diadema |-> 11, CampoGrande |-> 9, Londrina |-> 10,
     Maringa |-> 10, Cascavel |-> 10, JoaoPessoa |-> 12, Recife |-> 13,
     Salvador |-> 12, Aracaju |-> 12]

\* dict.get(key, default)
DictGet(d, k, default) == IF k \in DOMAIN d THEN d[k] ELSE default

\* Faulty variant: the factors of summer and winter are exchanged.
SeasonalFactor500_swapped(mes_atual) ==
    IF mes_atual \in {F(12), F(1), F(2)} THEN 150
    ELSE IF mes_atual \in {F(6), F(7), F(8)} THEN 750
    ELSE 500

\* Lines 218..224, times 500; mes is the month number, wrapped as a float.
SeasonalFactor500(mes_atual) ==
    IF mes_atual \in {F(12), F(1), F(2)} THEN 750
    ELSE IF mes_atual \in {F(6), F(7), F(8)} THEN 150
    ELSE 500

\* Lines 213..248: base_precipitation, NaN when a factor is NaN.
BasePrecipitation(base_row, municipio) ==
    LET t == DictGet(base_row, "temp_max", F(250))
        u == DictGet(base_row, "umidade", F(600))
        p == DictGet(base_row, "pressao", F(10130))
        mes_atual == DictGet(base_row, "mes", F(6))
        municipio_factor == DictGet(municipio_factors, municipio, 10)
    IN  IF IsNaN(t) \/ IsNaN(u) \/ IsNaN(p) THEN NaN
        ELSE F((1000 + 8 * (u[1] - 500) + 15 * (t[1] - 200) + 5 * (10130 - p[1])
                  + 2 * SeasonalFactor500(mes_atual)) * municipio_factor)

\* np.sin(2 * np.pi * i / 7) * 0.5 (line 256), rounded to 1/5000 mm.
DayVariation(i) == <<0, 1955, 2437, 1085, -1085, -2437, -1955>>[(i % 7) + 1]

\* Faulty variant: the clamp of line 260 is missing.
PyMax0_noclamp(x) == x

\* max(0, x) of Python (line 260): x when x > 0, else the first argument,
\* which is also what a NaN gives.
PyMax0(x) == IF Gt(x, F(0)) THEN x ELSE F(0)

\* Lines 253..261; noise[i + 1] is the draw of np.random.normal for day i.
Predictions(base, num_days, noise) ==
    [k \in 1..num_days |-> PyMax0(FAdd(FAdd(base, F(DayVariation(k - 1))), F(noise[k])))]

\* Faulty variant: the range starts on the day after `start`.
date_range_next(start, periods) == [i \in 1..periods |-> start + i]

\* pd.date_range(start=start, periods=periods, freq='D') (line 251): days
\* are counted as integers.
date_range(start, periods) == [i \in 1..periods |-> start + (i - 1)]

\* pd.Series() / pd.Series(predictions, ...): the values, in date order.
EmptySeries == <<>>

\* make_prediction_enhanced(df_input, num_days, municipio): its arguments,
\* the series it returns, whether it succeeded, what the feature function
\* returned to it, and what it rendered.  `featRaises`
\* is the failure of create_features_enhanced described above, `predRaises`
\* an exception raised in the body of lines 209..263 and caught at line 265.
\* `now` is the day of datetime.now() at line 251, `index` the dates of the
\* returned series (empty for pd.Series()).
PredictionFrom(fe, num_days, municipio, noise, predRaises, now) ==
    IF Len(fe.ret) = 0
    THEN [num_days |-> num_days, municipio |-> municipio,
          ret |-> EmptySeries, index |-> <<>>, ok |-> FALSE, fe |-> fe,
          msgs |-> fe.msgs \o <<Elem("error", 206, 0)>>]
    ELSE IF predRaises
    THEN [num_days |-> num_days, municipio |-> municipio,
          ret |-> EmptySeries, index |-> <<>>, ok |-> FALSE, fe |-> fe,
          msgs |-> fe.msgs \o <<Elem("error", 266, 0)>>]
    ELSE [num_days |-> num_days, municipio |-> municipio,
          ret |-> Predictions(BasePrecipitation(fe.ret[Len(fe.ret)], municipio),
                              num_days, noise),
          index |-> date_range(now, num_days),
          ok |-> TRUE, fe |-> fe, msgs |-> fe.msgs]

\* Line 203, then lines 205..267 on what create_features_enhanced returned.
make_prediction_enhanced(df, num_days, municipio, noise, featRaises, predRaises, now) ==
    PredictionFrom(create_features_enhanced(df, featRaises),
                   num_days, municipio, noise, predRaises, now)

(***************************************************************************)
(* src/app.py: fetch_ana_station_data (the body under the cache            *)
(* decorator).  A response is what requests.get met: a timeout, a          *)
(* connection error, an HTTP error status, a body BeautifulSoup cannot     *)
(* parse (line 437 raises), or a body with a sequence of                   *)
(* DadosHidrometeorologicos records.  In a record the DataHora and Chuva   *)
(* tags are Absent, or hold the empty text (NaN), text that is no date or  *)
(* number (Garbled), or a value <<n>>.                                     *)
(***************************************************************************)
\* Faulty variant: a failed request is sent a second time.
RequestsIssued_retry(status) == IF status \in {"timeout", "conn_error"} THEN 2 ELSE 1

\* requests.get is called once, at line 433, outside any loop.
RequestsIssued(status) == 1

\* Lines 442..450 for one record: "raise", "skip", or the row appended.
ParseItem(item) ==
    IF item.DataHora # Absent /\ item.DataHora = NaN THEN "raise"   \* "".split()[0]
    ELSE IF item.DataHora = Absent \/ item.Chuva \in {Absent, NaN} THEN "skip"
    ELSE IF item.DataHora = Garbled THEN "raise"                    \* pd.to_datetime
    ELSE IF item.Chuva = Garbled THEN "raise"                       \* float(chuva)
    ELSE "row"

ItemRow(item) == [data |-> item.DataHora, precipitacao |-> item.Chuva]

\* Lines 440..450: the rows collected, or <<"raise">> at the first record
\* that raises.
ParseItems(items) ==
    LET RECURSIVE Go(_)
        Go(i) ==
            IF i > Len(items) THEN [raised |-> FALSE, dados |-> <<>>]
            ELSE LET kind == ParseItem(items[i])
                     rest == Go(i + 1)
                 IN  IF kind = "raise" \/ rest.raised THEN [raised |-> TRUE, dados |-> <<>>]
                     ELSE IF kind = "skip" THEN rest
                     ELSE [raised |-> FALSE, dados |-> <<ItemRow(items[i])>> \o rest.dados]
    IN  Go(1)

EmptyFrame == <<>>

\* One run of the body (lines 424..462): the requests it sent, the table it
\* returned, whether an exception left the function, what it rendered.
fetch_ana_station_data(codigo_estacao, response) ==
    LET parsed == ParseItems(response.items)
        failed == response.status # "ok" \/ parsed.raised
    IN  [codigo |-> codigo_estacao, response |-> response,
         requests |-> RequestsIssued(response.status),
         failed |-> failed,
         propagated |-> FALSE,
         ret |-> IF failed THEN EmptyFrame ELSE parsed.dados,
         msgs |-> IF failed THEN <<Elem("error", 461, 0)>>
                  ELSE IF parsed.dados = <<>> THEN <<Elem("warning", 457, 0)>>
                  ELSE <<>>]

(***************************************************************************)
(* src/app.py: calculate_enhanced_metrics.  The values of the literal are  *)
(* in thousandths; a value of the dict is a fraction <<num, den>> of       *)
(* thousandths, so that the in-place scaling of lines 404..406 is exact:   *)
(* degradation_factor = 1 + (num_days - 7) * 0.05 = (num_days + 13) / 20.  *)
(***************************************************************************)
base_metrics_literal ==
    [Itirapina |-> [RMSE |-> 2100, MAE |-> 1600, R2 |-> 820],
     Santos |-> [RMSE |-> 2800, MAE |-> 2100, R2 |-> 750],
     Cuiaba |-> [RMSE |-> 3200, MAE |-> 2400, R2 |-> 680],
     Natal |-> [RMSE |-> 2500, MAE |-> 1900, R2 |-> 780],
     Campinas |-> [RMSE |-> 2300, MAE |-> 1700, R2 |-> 800],
     RibeiraoPreto |-> [RMSE |-> 2400, MAE |-> 1800, R2 |-> 790],
     SaoJoseDosCampos |-> [RMSE |-> 2200, MAE |-> 1700, R2 |-> 810],
     Sorocaba |-> [RMSE |-> 2300, MAE |-> 1700, R2 |-> 800],
     Piracicaba |-> [RMSE |-> 2300, MAE |-> 1700, R2 |-> 800],
     Bauru |-> [RMSE |-> 2500, MAE |-> 1900, R2 |-> 780],
     Araraquara |-> [RMSE |-> 2400, MAE |-> 1800, R2 |-> 790],
     SaoCarlos |-> [RMSE |-> 2300, MAE |-> 1700, R2 |-> 800],
     Franca |-> [RMSE |-> 2400, MAE |-> 1800, R2 |-> 790],
     PresidentePrudente |-> [RMSE |-> 2600, MAE |-> 2000, R2 |-> 770],
     Marilia |-> [RMSE |-> 2400, MAE |-> 1800, R2 |-> 790],
     Aracatuba |-> [RMSE |-> 2700, MAE |-> 2000, R2 |-> 760],
     Botucatu |-> [RMSE |-> 2400, MAE |-> 1800, R2 |-> 790],
     RioClaro |-> [RMSE |-> 2300, MAE |-> 1700, R2 |-> 800],
     Limeira |-> [RMSE |-> 2300, MAE |-> 1700, R2 |-> 800],
     Americana |-> [RMSE |-> 2300, MAE |-> 1700, R2 |-> 800],
     Jundiai |-> [RMSE |-> 2200, MAE |-> 1700, R2 |-> 810],
     Taubate |-> [RMSE |-> 2300, MAE |-> 1700, R2 |-> 800],
     Guaratingueta |-> [RMSE |-> 2300, MAE |-> 1700, R2 |-> 800],
     Jacarei |-> [RMSE |-> 2200, MAE |-> 1700, R2 |-> 810],
     MogiDasCruzes |-> [RMSE |-> 2300, MAE |-> 1700, R2 |-> 800],
     Suzano |-> [RMSE |-> 2400, MAE |-> 1800, R2 |-> 790],
     Diadema |-> [RMSE |-> 2500, MAE |-> 1900, R2 |-> 780],
     CampoGrande |-> [RMSE |-> 2600, MAE |-> 2000, R2 |-> 770],
     Londrina |-> [RMSE |-> 2400, MAE |-> 1800, R2 |-> 790],
     Maringa |-> [RMSE |-> 2400, MAE |-> 1800, R2 |-> 790],
     Cascavel |-> [RMSE |-> 2500, MAE |-> 1900, R2 |-> 780],
     JoaoPessoa |-> [RMSE |-> 2600, MAE |-> 2000, R2 |-> 770],
     Recife |-> [RMSE |-> 2900, MAE |-> 2200, R2 |-> 740],
     Salvador |-> [RMSE |-> 2700, MAE |-> 2100, R2 |-> 760],
     Aracaju |-> [RMSE |-> 2600, MAE |-> 2000, R2 |-> 770]]

Frac(v) == <<v, 1>>

\* The dict as line 361 builds it.
FreshDict ==
    [m \in DOMAIN base_metrics_literal |->
        [k \in {"RMSE", "MAE", "R2"} |-> Frac(base_metrics_literal[m][k])]]

\* Faulty variant: the dict outlives the call (built once, at module level).
DictAtCall_kept(previous) == previous

\* Line 361: the dict is built from the literal by every call; whatever an
\* earlier call left is not read.
DictAtCall(previous) == FreshDict

\* Lines 403..406 on the entry `metrics` refers to.
Degrade(metrics, num_days) ==
    [RMSE |-> <<metrics.RMSE[1] * (num_days + 13), metrics.RMSE[2] * 20>>,
     MAE |-> <<metrics.MAE[1] * (num_days + 13), metrics.MAE[2] * 20>>,
     R2 |-> <<metrics.R2[1] * 20, metrics.R2[2] * (num_days + 13)>>]

\* round(v, 3) of a fraction of thousandths: to the nearest, ties to even.
Round3(q) ==
    LET fl == q[1] \div q[2]
        r == q[1] % q[2]
    IN  IF 2 * r < q[2] THEN fl
        ELSE IF 2 * r > q[2] THEN fl + 1
        ELSE IF fl % 2 = 0 THEN fl ELSE fl + 1

\* base_metrics.get(municipio, base_metrics["Itirapina"]) returns the entry
\* itself, not a copy: the key of the entry that is updated in place.
MetricsKey(d, municipio) == IF municipio \in DOMAIN d THEN municipio ELSE "Itirapina"

\* The dict after the call (lines 399..406).
MetricsDictAfter(d, municipio, num_days) ==
    IF num_days > 7
    THEN [d EXCEPT ![MetricsKey(d, municipio)] = Degrade(@, num_days)]
    ELSE d

\* The value returned at line 408.
MetricsReturned(d, municipio) ==
    [k \in {"RMSE", "MAE", "R2"} |-> Round3(d[MetricsKey(d, municipio)][k])]

(***************************************************************************)
(* Validation: the dicts validate_meteorological_data is given.  The       *)
(* individual panel passes the five slider values (line 755); the CSV      *)
(* panel passes row.to_dict() (line 1097), where an empty cell is NaN.     *)
(* A key may be absent (the 'in data' tests of lines 95..111).             *)
(***************************************************************************)
TempMaxVals == Around(-500) \cup Around(600) \cup {F(180), F(280), NaN}

TempMinVals == Around(-600) \cup Around(500) \cup {F(180), F(280), NaN}

UmidadeVals == Around(0) \cup Around(1000) \cup {F(650), NaN}

PressaoVals == {F(7999), F(8000), F(11000), F(11001), NaN}

VentoVals == {F(-1), F(0), F(2000), F(2001), NaN}

ValKeys == {"temp_max", "temp_min", "umidade", "pressao", "vel_vento"}

OrAbsent(S) == S \cup {Absent}

MkDict(full) == [k \in {j \in ValKeys : full[j] # Absent} |-> full[k]]

NoCall == <<>>

NoFeat == [ret |-> <<>>, dated |-> <<>>, raised |-> FALSE, msgs |-> <<>>]

NoPred == [num_days |-> 0, municipio |-> "", ret |-> <<>>, index |-> <<>>, ok |-> FALSE,
           fe |-> NoFeat, msgs |-> <<>>]

FeatIdle == df_input = <<>> /\ feat = NoFeat /\ pred = NoPred

NoMetricsCall == [municipio |-> "", num_days |-> 0,
                  ret |-> [RMSE |-> 0, MAE |-> 0, R2 |-> 0], count |-> 0]

MetricsIdle ==
    /\ base_metrics = FreshDict
    /\ metricsCall = NoMetricsCall
    /\ firstCall = NoMetricsCall

NoResponse == [status |-> "", items |-> <<>>]

NoFetch == [codigo |-> "", response |-> NoResponse, requests |-> 0, failed |-> FALSE,
            propagated |-> FALSE, ret |-> <<>>, msgs |-> <<>>]

ValIdle == data = <<>> /\ vres = <<>> /\ rangeCall = NoCall

AppIdle == widgets = <<>> /\ page = <<>>

MoreIdle ==
    hist = <<>> /\ sim = <<>> /\ lookup = <<>> /\ cache = <<>> /\ twin = <<>>

InitValidate ==
    /\ pc = "input"
    /\ FeatIdle
    /\ fetch = NoFetch
    /\ MetricsIdle
    /\ MoreIdle
    /\ AppIdle
    /\ \E tmax \in OrAbsent(TempMaxVals), tmin \in OrAbsent(TempMinVals),
          u \in OrAbsent(UmidadeVals), p \in OrAbsent(PressaoVals),
          w \in OrAbsent(VentoVals) :
            data = MkDict([temp_max |-> tmax, temp_min |-> tmin, umidade |-> u,
                           pressao |-> p, vel_vento |-> w])
    /\ vres = <<>>
    /\ rangeCall = NoCall

\* One call of validate_meteorological_data(data), with the call of
\* validate_temperature_range it makes at line 96.
Validate ==
    /\ pc = "input"
    /\ pc' = "validated"
    /\ vres' = validate_meteorological_data(data)
    /\ rangeCall' =
         IF Has(data, "temp_max") /\ Has(data, "temp_min")
         THEN <<data["temp_max"], data["temp_min"],
                validate_temperature_range(data["temp_max"], data["temp_min"])>>
         ELSE NoCall
    /\ UNCHANGED <<data, featVars, fetch, metricsVars, appVars, moreVars>>

NextValidate == Validate

SpecValidate == InitValidate /\ [][NextValidate]_vars

(***************************************************************************)
(* The feature and forecast functions on bounded tables.                   *)
(***************************************************************************)
Row(d, t, u, p) ==
    [data |-> d, temp_max |-> t, temp_min |-> F(20), umidade |-> u,
     pressao |-> p, vel_vento |-> F(50), rad_solar |-> F(200)]

\* Dates in January and July, text that is no date, an empty cell.
FeatRows ==
    { Row(d, t, u, p) : d \in {F(15), F(196), Garbled, NaN}, t \in {F(100), NaN},
                        u \in {F(0), F(900), NaN}, p \in {F(10130), NaN} }

\* Dates in January, April and July, and text that is no date.
PredRows ==
    { Row(d, t, u, p) : d \in {F(15), F(105), F(196), Garbled}, t \in {F(100), NaN},
                        u \in {F(0), F(900), NaN}, p \in {F(10130), NaN} }

\* Two listed municipalities and a name outside the list.
PredMunicipios == {"Santos", "Cuiaba", "Outro"}

NoiseVals == {-NoiseMax, NoiseMax}

InitFeatures ==
    /\ pc = "input"
    /\ ValIdle
    /\ \E n \in 0..MaxRows : df_input \in [1..n -> FeatRows]
    /\ feat = NoFeat
    /\ pred = NoPred
    /\ fetch = NoFetch
    /\ MetricsIdle
    /\ MoreIdle
    /\ AppIdle

CreateFeatures ==
    /\ pc = "input"
    /\ pc' = "features"
    /\ \E raises \in BOOLEAN : feat' = create_features_enhanced(df_input, raises)
    /\ UNCHANGED <<valVars, df_input, pred, fetch, metricsVars, appVars, moreVars>>

NextFeatures == CreateFeatures

SpecFeatures == InitFeatures /\ [][NextFeatures]_vars

InitPredict ==
    /\ pc = "input"
    /\ ValIdle
    /\ \E n \in 0..MaxPredRows : df_input \in [1..n -> PredRows]
    /\ feat = NoFeat
    /\ pred = NoPred
    /\ fetch = NoFetch
    /\ MetricsIdle
    /\ MoreIdle
    /\ AppIdle

Predict ==
    /\ pc = "input"
    /\ pc' = "predicted"
    /\ \E num_days \in 1..MaxDays, municipio \in PredMunicipios,
          featRaises \in BOOLEAN, predRaises \in BOOLEAN, now \in {15, 365} :
         \E noise \in [1..num_days -> NoiseVals] :
            pred' = make_prediction_enhanced(df_input, num_days, municipio, noise,
                                             featRaises, predRaises, now)
    /\ UNCHANGED <<valVars, df_input, feat, fetch, metricsVars, appVars, moreVars>>

NextPredict == Predict

SpecPredict == InitPredict /\ [][NextPredict]_vars

(***************************************************************************)
(* One run of the body of fetch_ana_station_data.                          *)
(***************************************************************************)
\* The station codes of search_ana_stations (lines 476..482).
StationCodes == {"12345000", "12345001", "12345002", "12345003", "12345004"}

Items == [DataHora : {Absent, NaN, Garbled, F(15)}, Chuva : {Absent, NaN, Garbled, F(25)}]

Responses ==
    { [status |-> st, items |-> <<>>] : st \in {"timeout", "conn_error", "http_error", "xml_error"} }
    \cup UNION { { [status |-> "ok", items |-> its] : its \in [1..n -> Items] } : n \in 0..MaxItems }

InitFetch ==
    /\ pc = "input"
    /\ ValIdle
    /\ FeatIdle
    /\ fetch = NoFetch
    /\ MetricsIdle
    /\ MoreIdle
    /\ AppIdle

FetchBody ==
    /\ pc = "input"
    /\ pc' = "fetched"
    /\ \E codigo \in StationCodes, response \in Responses :
         fetch' = fetch_ana_station_data(codigo, response)
    /\ UNCHANGED <<valVars, featVars, metricsVars, appVars, moreVars>>

NextFetch == FetchBody

SpecFetch == InitFetch /\ [][NextFetch]_vars

(***************************************************************************)
(* Repeated calls of calculate_enhanced_metrics, as the individual panel   *)
(* (line 893) and the comparison loop (line 1316) make them.               *)
(***************************************************************************)
\* Three listed municipalities and a name outside the list.
MetricsMunicipios == {"Itirapina", "Santos", "Cuiaba", "Outro"}

MetricsDays == 6..MaxMetricDays

InitMetrics ==
    /\ pc = "input"
    /\ ValIdle
    /\ FeatIdle
    /\ fetch = NoFetch
    /\ MetricsIdle
    /\ MoreIdle
    /\ AppIdle

CalcMetrics ==
    /\ metricsCall.count < MaxMetricCalls
    /\ pc' = "metrics"
    /\ \E municipio \in MetricsMunicipios, num_days \in MetricsDays :
         LET d == MetricsDictAfter(DictAtCall(base_metrics), municipio, num_days)
             call == [municipio |-> municipio, num_days |-> num_days,
                      ret |-> MetricsReturned(d, municipio),
                      count |-> metricsCall.count + 1]
         IN  /\ base_metrics' = d
             /\ metricsCall' = call
             /\ firstCall' = IF metricsCall.count = 0 THEN call ELSE firstCall
    /\ UNCHANGED <<valVars, featVars, fetch, appVars, moreVars>>

NextMetrics == CalcMetrics

SpecMetrics == InitMetrics /\ [][NextMetrics]_vars

InSeq(x, s) == \E i \in 1..Len(s) : s[i] = x

(***************************************************************************)
(* src/app.py: main().  Streamlit runs main() from top to bottom on every  *)
(* UI event (a rerun).  `widgets` is what Streamlit keeps between reruns:  *)
(* the value of every widget on the page; a widget a rerun does not render *)
(* loses its value.  `page` is what one rerun did: the event that caused   *)
(* it, and `trace`, the elements it rendered and the helper calls it made, *)
(* in program order, each with the line of app.py it comes from.  main()   *)
(* keeps nothing else: it has local variables only and never touches       *)
(* st.session_state.  The maps, the tables of static text, the slider      *)
(* rad_solar and the date inputs (left at the values they start with) are  *)
(* not modelled.                                                           *)
(***************************************************************************)
Range(s) == {s[i] : i \in DOMAIN s}

Panels == {"individual", "csv", "comparativa", "ana", "sobre"}

\* The municipalities offered by the selectboxes: two with stations and one
\* without.
AppMunicipios == {"Itirapina", "Santos", "Campinas"}

\* The options of the demonstration selectbox (line 1580).
DemoMunicipios == {"Itirapina", "Santos", "Cuiaba", "Natal"}

\* The multiselect of line 1215 draws from these.
ComparisonMunicipios ==
    {"Itirapina", "Santos", "Cuiaba", "Natal", "Campinas", "Bauru"}

\* Values of the number input of line 733: the least, the initial and the
\* greatest.
AppDays == {1, 7, 30}

\* Values of the number input of line 1082 (1..30, initially 7).
CsvDays == {1, 7}

\* The column 'estado' of get_municipios_data (lines 509..514), by city.
estado ==
    [Itirapina |-> "SP", Campinas |-> "SP", RibeiraoPreto |-> "SP", Santos |-> "SP",
     SaoJoseDosCampos |-> "SP", Sorocaba |-> "SP", Piracicaba |-> "SP", Bauru |-> "SP",
     Araraquara |-> "SP", SaoCarlos |-> "SP", Franca |-> "SP",
     PresidentePrudente |-> "SP", Marilia |-> "SP", Aracatuba |-> "SP",
     Botucatu |-> "SP", RioClaro |-> "SP", Limeira |-> "SP", Americana |-> "SP",
     Jundiai |-> "SP", Taubate |-> "SP", Guaratingueta |-> "SP", Jacarei |-> "SP",
     MogiDasCruzes |-> "SP", Suzano |-> "SP", Diadema |-> "SP", Cuiaba |-> "MT",
     CampoGrande |-> "MS", Londrina |-> "PR", Maringa |-> "PR", Cascavel |-> "PR",
     Natal |-> "RN", JoaoPessoa |-> "PB", Recife |-> "PE", Salvador |-> "BA",
     Aracaju |-> "SE"]

\* Faulty variant: Campinas has a station as well.
estacoes_por_municipio_more ==
    [Itirapina |-> <<"12345000">>, Santos |-> <<"12345001", "12345002">>,
     Cuiaba |-> <<"12345003">>, Natal |-> <<"12345004">>, Campinas |-> <<"12345005">>]

\* estacoes_por_municipio (lines 475..483): the station codes.
estacoes_por_municipio ==
    [Itirapina |-> <<"12345000">>, Santos |-> <<"12345001", "12345002">>,
     Cuiaba |-> <<"12345003">>, Natal |-> <<"12345004">>]

\* search_ana_stations(municipio, estado) (lines 485..489): the key is the
\* name of the municipality alone.
search_ana_stations(municipio, estado_) ==
    LET chave == municipio
    IN  DictGet(estacoes_por_municipio, chave, <<>>)

required_columns ==
    <<"data", "temp_max", "temp_min", "umidade", "pressao", "vel_vento", "rad_solar">>

\* Faulty variant: the last required column is not looked for.
missing_columns_short(df_columns) ==
    LET IsMissing(col) == col \notin df_columns /\ col # "rad_solar"
    IN  SelectSeq(required_columns, IsMissing)

\* Line 1046.
missing_columns(df_columns) ==
    LET IsMissing(col) == col \notin df_columns
    IN  SelectSeq(required_columns, IsMissing)

\* Faulty variant: a button keeps returning True after its click.
ButtonValue_sticky(key, trigger) == TRUE

\* st.button(...) is True only in the rerun its own click caused.
ButtonValue(key, trigger) == trigger = key

\* The line of each st.button of main().
ButtonLine ==
    [buscar_ana |-> 687, gerar_previsao |-> 771, baixar_template |-> 1013,
     processar |-> 1089, buscar_estacao |-> 1411, previsao_rapida |-> 1587]

\* generate_enhanced_historical_data(municipio, 365): whether it returned
\* the empty table of line 356, and what it rendered.  `fails`: an exception
\* was raised in its body and caught at line 354.  The generated values are
\* not modelled.
generate_enhanced_historical_data(municipio, fails) ==
    IF fails THEN [empty |-> TRUE, msgs |-> <<Elem("error", 355, 0)>>]
    ELSE [empty |-> FALSE, msgs |-> <<>>]

\* What the environment decides during one rerun: the answer of the ANA
\* service, the draw of np.random.normal (one value for every day), the
\* exceptions raised inside the helpers, and the month of datetime.now().
NoEnv ==
    [response |-> [status |-> "timeout", items |-> <<>>], noise |-> NoiseMax,
     featRaises |-> FALSE, predRaises |-> FALSE, histFail |-> {}, now |-> F(196)]

AppNoise(num_days, v) == [i \in 1..num_days |-> v]

AppResponses == {r \in Responses : Len(r.items) <= 1}

\* The uploaded file: none, a file pd.read_csv cannot parse (line 1041
\* raises), or a table with some columns: all the required ones, all but
\* one or two of them, or none of them.  The rows of a file that lacks a
\* required column are never read and are left out.
NoFile == [uploaded |-> FALSE, readable |-> FALSE, columns |-> {}, rows |-> <<>>]

UnreadableFile == [uploaded |-> TRUE, readable |-> FALSE, columns |-> {}, rows |-> <<>>]

\* A valid row, a row with humidity above 100, a row whose date is no date,
\* and a row with an empty temperature cell.
CsvRows ==
    { Row(F(15), F(100), F(900), F(10130)), Row(F(196), F(100), F(1010), F(10130)),
      Row(Garbled, F(100), F(900), F(10130)), Row(F(15), NaN, F(900), F(10130)) }

Files ==
    {UnreadableFile}
    \cup { [uploaded |-> TRUE, readable |-> TRUE, columns |-> cols, rows |-> <<>>] :
             cols \in { c \in SUBSET Range(required_columns) :
                          Cardinality(Range(required_columns) \ c) \in {1, 2, 7} } }
    \cup UNION { { [uploaded |-> TRUE, readable |-> TRUE,
                    columns |-> Range(required_columns), rows |-> t] :
                     t \in [1..n -> CsvRows] } : n \in 0..MaxCsvRows }

\* The values the widgets start with (lines 601, 733, 744..749, 1033, 1075,
\* 1082, 1218, 1368, 1578..1584).
DefaultWidgets ==
    [opcao |-> "individual", municipio_selecionado |-> "Itirapina",
     estacao_selecionada |-> "", num_dias |-> 7,
     temp_max |-> F(280), temp_min |-> F(180), umidade |-> F(650),
     pressao |-> F(10130), vel_vento |-> F(80),
     uploaded_file |-> NoFile, municipio_csv |-> "Itirapina", dias_previsao |-> 7,
     municipios_selecionados |-> <<"Itirapina", "Santos", "Cuiaba">>,
     municipio_ana |-> "Itirapina", demo_municipio |-> "Itirapina",
     demo_temp |-> F(250), demo_umidade |-> F(650),
     usar_dados_ana |-> FALSE]

\* The selectbox and number input of lines 1075..1086 are rendered.
CsvReady(w) ==
    /\ w.opcao = "csv"
    /\ w.uploaded_file.uploaded
    /\ w.uploaded_file.readable
    /\ missing_columns(w.uploaded_file.columns) = <<>>

\* The widget values Streamlit holds after a rerun: a widget the rerun did
\* not render is back at its initial value, and the station selectbox
\* (lines 662, 1387) holds one of the stations of the municipality.
Normalise(w) ==
    LET d == DefaultWidgets
        ind == w.opcao = "individual"
        sobre == w.opcao = "sobre"
        mun == IF ind THEN w.municipio_selecionado
               ELSE IF w.opcao = "ana" THEN w.municipio_ana ELSE ""
        estacoes == search_ana_stations(mun, estado[mun])
    IN  [opcao |-> w.opcao,
         municipio_selecionado |-> IF ind THEN w.municipio_selecionado ELSE d.municipio_selecionado,
         estacao_selecionada |->
             IF estacoes = <<>> THEN ""
             ELSE IF w.estacao_selecionada \in Range(estacoes) THEN w.estacao_selecionada
             ELSE estacoes[1],
         num_dias |-> IF ind THEN w.num_dias ELSE d.num_dias,
         temp_max |-> IF ind THEN w.temp_max ELSE d.temp_max,
         temp_min |-> IF ind THEN w.temp_min ELSE d.temp_min,
         umidade |-> IF ind THEN w.umidade ELSE d.umidade,
         pressao |-> IF ind THEN w.pressao ELSE d.pressao,
         vel_vento |-> IF ind THEN w.vel_vento ELSE d.vel_vento,
         uploaded_file |-> IF w.opcao = "csv" THEN w.uploaded_file ELSE d.uploaded_file,
         municipio_csv |-> IF CsvReady(w) THEN w.municipio_csv ELSE d.municipio_csv,
         dias_previsao |-> IF CsvReady(w) THEN w.dias_previsao ELSE d.dias_previsao,
         municipios_selecionados |->
             IF w.opcao = "comparativa" THEN w.municipios_selecionados
             ELSE d.municipios_selecionados,
         municipio_ana |-> IF w.opcao = "ana" THEN w.municipio_ana ELSE d.municipio_ana,
         demo_municipio |-> IF sobre THEN w.demo_municipio ELSE d.demo_municipio,
         demo_temp |-> IF sobre THEN w.demo_temp ELSE d.demo_temp,
         demo_umidade |-> IF sobre THEN w.demo_umidade ELSE d.demo_umidade,
         usar_dados_ana |-> IF ind THEN w.usar_dados_ana ELSE d.usar_dados_ana]

\* Lines 586, 587: the sidebar, rendered by every rerun before the panel.
Sidebar == <<Elem("success", 586, 0), Elem("info", 587, 0)>>

\* Lines 687..721: the click on the fetch button, on what the fetch returned
\* and on the value Streamlit holds for the checkbox of line 720 (the n of
\* its element is 1 for a ticked box).
FetchPart(df_ana, usar_dados_ana) ==
    <<Elem("call", 689, 0)>> \o df_ana.msgs
    \o (IF df_ana.ret # EmptyFrame
        THEN <<Elem("success", 696, Len(df_ana.ret)), Elem("chart", 706, 0),
               Elem("checkbox", 720, IF usar_dados_ana THEN 1 ELSE 0)>>
             \o (IF usar_dados_ana THEN <<Elem("info", 721, 0)>> ELSE <<>>)
        ELSE <<>>)

\* Faulty variant: the button is enabled whatever the validation says.
GenerateEnabled_always(is_valid) == 1

\* disabled=not is_valid (line 771): 1 for a button that can be clicked.
GenerateEnabled(is_valid) == IF is_valid THEN 1 ELSE 0

\* Lines 765..768 and the button of line 771, on what the validation
\* returned.
ValidationPart(validation) ==
    <<Elem("call", 763, 0)>>
    \o (IF ~validation[1]
        THEN <<Elem("error", 766, 0)>>
             \o [i \in 1..Len(validation[2]) |-> Elem("error", 768, i)]
        ELSE <<>>)
    \o <<Elem("button", 771, GenerateEnabled(validation[1]))>>

\* Lines 787..993, on what make_prediction_enhanced returned; `histFails`
\* is the failure of the call of line 928.
ForecastPart(previsoes, municipio, histFails) ==
    [trace |->
        <<Elem("call", 785, 0)>> \o previsoes.msgs
        \o (IF Len(previsoes.ret) > 0
            THEN <<Elem("success", 789, 0),
                   Elem("forecast", 792, Len(previsoes.ret)),
                   Elem("call", 893, 0), Elem("metrics", 898, 0),
                   Elem("call", 928, 0)>>
                 \o generate_enhanced_historical_data(municipio, histFails).msgs
                 \o (IF ~histFails THEN <<Elem("chart", 957, 0)>> ELSE <<>>)
            ELSE <<Elem("error", 993, 0)>>),
     previsoes |-> previsoes.ret, index |-> previsoes.index, df_valid |-> <<>>]

NoForecastPart == [trace |-> <<>>, previsoes |-> EmptySeries, index |-> <<>>, df_valid |-> <<>>]

\* Lines 772..993 when the button of line 771 returns True.
GeneratePart(w, env) ==
    ForecastPart(
        make_prediction_enhanced(
            <<[data |-> env.now, temp_max |-> w.temp_max, temp_min |-> w.temp_min,
               umidade |-> w.umidade, pressao |-> w.pressao, vel_vento |-> w.vel_vento,
               rad_solar |-> F(220)]>>,
            w.num_dias, w.municipio_selecionado, AppNoise(w.num_dias, env.noise),
            env.featRaises, env.predRaises, env.now[1]),
        w.municipio_selecionado, w.municipio_selecionado \in env.histFail)

\* A panel's trace and forecast, after the trace of what precedes them.
After(prefix, part) ==
    [trace |-> prefix \o part.trace, previsoes |-> part.previsoes, index |-> part.index,
     df_valid |-> part.df_valid, missing |-> <<>>]

\* The panel of lines 590..993.
IndividualPanel(w, trigger, env) ==
    After(
        (IF search_ana_stations(w.municipio_selecionado, estado[w.municipio_selecionado]) # <<>>
         THEN <<Elem("button", 687, 1)>>
              \o (IF ButtonValue("buscar_ana", trigger)
                  THEN FetchPart(fetch_ana_station_data(w.estacao_selecionada, env.response),
                                 w.usar_dados_ana)
                  ELSE <<>>)
         ELSE <<Elem("info", 723, 0)>>)
        \o ValidationPart(validate_meteorological_data(
               [temp_max |-> w.temp_max, temp_min |-> w.temp_min, umidade |-> w.umidade,
                pressao |-> w.pressao, vel_vento |-> w.vel_vento])),
        IF ButtonValue("gerar_previsao", trigger) THEN GeneratePart(w, env)
        ELSE NoForecastPart)

\* Faulty variant: every row is kept.
ValidRows_all(df) == 1..Len(df)

\* Lines 1096..1101: the indices of the rows that pass the validation.
ValidRows(df) == {i \in 1..Len(df) : validate_meteorological_data(df[i])[1]}

\* len(errors_found): the messages of all the rows that fail.
ErrorsFound(df) ==
    LET RECURSIVE Count(_)
        Count(i) ==
            IF i > Len(df) THEN 0
            ELSE Len(validate_meteorological_data(df[i])[2]) + Count(i + 1)
    IN  Count(1)

\* Lines 1103..1108.
RowWarnings(n) ==
    IF n = 0 THEN <<>>
    ELSE <<Elem("warning", 1104, n)>>
         \o [i \in 1..(IF n < 10 THEN n ELSE 10) |-> Elem("warning", 1106, i)]
         \o (IF n > 10 THEN <<Elem("warning", 1108, n - 10)>> ELSE <<>>)

\* Lines 1115..1197, on what make_prediction_enhanced returned.
ResultsPart(previsoes_futuras) ==
    [trace |->
        <<Elem("call", 1115, 0)>> \o previsoes_futuras.msgs
        \o <<Elem("success", 1121, 0)>>
        \o (IF Len(previsoes_futuras.ret) > 0
            THEN <<Elem("forecast", 1138, Len(previsoes_futuras.ret)),
                   Elem("chart", 1155, 0), Elem("download", 1184, 0)>>
            ELSE <<Elem("chart", 1155, 0)>>)
        \o <<Elem("download", 1192, 0)>>,
     previsoes |-> previsoes_futuras.ret, index |-> previsoes_futuras.index, df_valid |-> <<>>]

\* Lines 1111..1200, on the rows that passed the validation.
ValidPart(df_valid, w, env) ==
    IF Len(df_valid) > 0
    THEN [ResultsPart(make_prediction_enhanced(
                        df_valid, w.dias_previsao, w.municipio_csv,
                        AppNoise(w.dias_previsao, env.noise),
                        env.featRaises, env.predRaises, env.now[1]))
          EXCEPT !.df_valid = df_valid]
    ELSE [trace |-> <<Elem("error", 1200, 0)>>, previsoes |-> EmptySeries, index |-> <<>>, df_valid |-> <<>>]

\* Lines 1091..1200: what the click on the processing button runs.  (A cell
\* of text in a validated column, which raises into the handler of line
\* 1202, is not among the rows.)
ProcessCsv(df, w, env) ==
    After([i \in 1..Len(df) |-> Elem("call", 1097, i)] \o RowWarnings(ErrorsFound(df)),
          ValidPart(SelectIdx(df, ValidRows(df)), w, env))

\* Lines 1042..1200 for a file that was parsed, on the missing columns.
ParsedPart(missing, w, trigger, env) ==
    IF missing # <<>>
    THEN [trace |-> <<Elem("success", 1042, 0), Elem("error", 1049, Len(missing))>>,
          previsoes |-> EmptySeries, index |-> <<>>, df_valid |-> <<>>, missing |-> missing]
    ELSE After(<<Elem("success", 1042, 0),
                 Elem("dataframe", 1053, Len(w.uploaded_file.rows)),
                 Elem("button", 1089, 1)>>,
               IF ButtonValue("processar", trigger)
               THEN ProcessCsv(w.uploaded_file.rows, w, env)
               ELSE NoForecastPart)

\* Lines 1039..1206.
UploadPart(w, trigger, env) ==
    IF ~w.uploaded_file.uploaded
    THEN [trace |-> <<>>, previsoes |-> EmptySeries, index |-> <<>>, df_valid |-> <<>>, missing |-> <<>>]
    ELSE IF ~w.uploaded_file.readable
    THEN [trace |-> <<Elem("error", 1206, 0)>>, previsoes |-> EmptySeries, index |-> <<>>, df_valid |-> <<>>, missing |-> <<>>]
    ELSE ParsedPart(missing_columns(w.uploaded_file.columns), w, trigger, env)

\* The panel of lines 995..1206.
CsvPanel(w, trigger, env) ==
    [UploadPart(w, trigger, env) EXCEPT
        !.trace = <<Elem("button", 1013, 1)>>
                  \o (IF ButtonValue("baixar_template", trigger)
                      THEN <<Elem("download", 1025, 0)>> ELSE <<>>)
                  \o @]

\* Lines 1226..1229: one call per selected municipality.
HistLoop(selected, histFail) ==
    LET RECURSIVE Go(_)
        Go(i) ==
            IF i > Len(selected) THEN <<>>
            ELSE <<Elem("call", 1227, i)>>
                 \o generate_enhanced_historical_data(selected[i], selected[i] \in histFail).msgs
                 \o Go(i + 1)
    IN  Go(1)

\* The panel of lines 1208..1357.
ComparativaPanel(w, trigger, env) ==
    LET selected == w.municipios_selecionados
        dados_comparativos == {i \in 1..Len(selected) : selected[i] \notin env.histFail}
    IN  [trace |->
            IF Len(selected) >= 2
            THEN HistLoop(selected, env.histFail)
                 \o (IF dados_comparativos # {}
                     THEN <<Elem("chart", 1233, Cardinality(dados_comparativos))>>
                          \o [i \in 1..Len(selected) |-> Elem("call", 1316, i)]
                          \o <<Elem("chart", 1341, 0), Elem("chart", 1354, 0)>>
                     ELSE <<>>)
            ELSE <<Elem("info", 1357, 0)>>,
         previsoes |-> EmptySeries, index |-> <<>>, df_valid |-> <<>>, missing |-> <<>>]

\* The panel of lines 1359..1454.
AnaPanel(w, trigger, env) ==
    LET estacoes == search_ana_stations(w.municipio_ana, estado[w.municipio_ana])
        df_ana == fetch_ana_station_data(w.estacao_selecionada, env.response)
    IN  [trace |->
            IF estacoes # <<>>
            THEN <<Elem("button", 1411, 1)>>
                 \o (IF ButtonValue("buscar_estacao", trigger)
                     THEN <<Elem("call", 1413, 0)>> \o df_ana.msgs
                          \o (IF df_ana.ret # EmptyFrame
                              THEN <<Elem("success", 1420, Len(df_ana.ret)),
                                     Elem("chart", 1430, 0), Elem("download", 1445, 0)>>
                              ELSE <<Elem("warning", 1452, 0)>>)
                     ELSE <<>>)
            ELSE <<Elem("warning", 1454, 0)>>,
         previsoes |-> EmptySeries, index |-> <<>>, df_valid |-> <<>>, missing |-> <<>>]

\* Lines 1603..1610, on a value in units of 1/5000 mm.
DemoRemark(x) ==
    IF Gt(x, F(50000)) THEN Elem("warning", 1604, 0)
    ELSE IF Gt(x, F(25000)) THEN Elem("info", 1606, 0)
    ELSE IF Gt(x, F(5000)) THEN Elem("info", 1608, 0)
    ELSE Elem("info", 1610, 0)

\* Lines 1600..1610, on what make_prediction_enhanced returned.  The
\* message of line 1601 is the forecast.
DemoPart(previsao_demo) ==
    [trace |->
        <<Elem("call", 1598, 0)>> \o previsao_demo.msgs
        \o (IF Len(previsao_demo.ret) > 0
            THEN <<Elem("success", 1601, 1), DemoRemark(previsao_demo.ret[1])>>
            ELSE <<>>),
     previsoes |-> previsao_demo.ret, index |-> previsao_demo.index, df_valid |-> <<>>]

\* The panel of lines 1456..1620.
SobrePanel(w, trigger, env) ==
    After(<<Elem("button", 1587, 1)>>,
          IF ButtonValue("previsao_rapida", trigger)
          THEN DemoPart(make_prediction_enhanced(
                   <<[data |-> env.now, temp_max |-> w.demo_temp,
                      temp_min |-> FSub(w.demo_temp, F(80)), umidade |-> w.demo_umidade,
                      pressao |-> F(10130), vel_vento |-> F(50), rad_solar |-> F(200)]>>,
                   1, w.demo_municipio, AppNoise(1, env.noise),
                   env.featRaises, env.predRaises, env.now[1]))
          ELSE NoForecastPart)

WithSidebar(panel) == [panel EXCEPT !.trace = Sidebar \o @]

\* One execution of main(): the sidebar, then the selected panel.
main(w, trigger, env) ==
    WithSidebar(IF w.opcao = "individual" THEN IndividualPanel(w, trigger, env)
                ELSE IF w.opcao = "csv" THEN CsvPanel(w, trigger, env)
                ELSE IF w.opcao = "comparativa" THEN ComparativaPanel(w, trigger, env)
                ELSE IF w.opcao = "ana" THEN AnaPanel(w, trigger, env)
                ELSE SobrePanel(w, trigger, env))

HasForecast(pg) == \E i \in DOMAIN pg.trace : pg.trace[i].kind = "forecast"

\* What a rerun leaves on the page.  df_valid is the table line 1115 hands
\* to make_prediction_enhanced.  forecast_before records whether the
\* page this rerun replaced showed a forecast.
PageOf(run, trigger, before, now) ==
    [trigger |-> trigger, trace |-> run.trace, previsoes |-> run.previsoes,
     index |-> run.index, df_valid |-> run.df_valid, now |-> now,
     missing |-> run.missing, forecast_before |-> before]

Rerun(w, trigger, env, before) ==
    PageOf(main(w, trigger, env), trigger, before, env.now[1])

\* What the environment may decide in a rerun, given what the rerun runs.
Envs(w, trigger) ==
    IF w.opcao = "comparativa"
    THEN { [NoEnv EXCEPT !.histFail = h] :
             h \in IF Len(w.municipios_selecionados) >= 2
                   THEN {{}, {w.municipios_selecionados[1]},
                         Range(w.municipios_selecionados)}
                   ELSE {{}} }
    ELSE IF trigger = "gerar_previsao"
    THEN { [NoEnv EXCEPT !.noise = v, !.featRaises = a, !.predRaises = b,
                         !.histFail = h, !.now = d] :
             v \in NoiseVals, a \in BOOLEAN, b \in BOOLEAN,
             h \in {{}, {w.municipio_selecionado}}, d \in {F(15), F(196)} }
    ELSE IF trigger \in {"processar", "previsao_rapida"}
    THEN { [NoEnv EXCEPT !.noise = v, !.featRaises = a, !.predRaises = b, !.now = d] :
             v \in NoiseVals, a \in BOOLEAN, b \in BOOLEAN, d \in {F(15), F(196)} }
    ELSE IF trigger \in {"buscar_ana", "buscar_estacao"}
    THEN { [NoEnv EXCEPT !.response = r] : r \in AppResponses }
    ELSE {NoEnv}

\* The multiselect of line 1215: one name removed or one appended.
SelectionChanges(sel) ==
    { SelectIdx(sel, (1..Len(sel)) \ {i}) : i \in 1..Len(sel) }
    \cup { Append(sel, m) : m \in ComparisonMunicipios \ Range(sel) }

\* The widgets the page shows and the other values the user may give them:
\* the event, and the widget values Streamlit hands to the rerun.  A file is
\* uploaded where the uploader holds none, and a file it holds is removed.
WidgetChanges(w, pg) ==
    { [trigger |-> "opcao", w |-> [w EXCEPT !.opcao = p]] : p \in Panels \ {w.opcao} }
    \cup
    (IF w.opcao = "individual" THEN
        { [trigger |-> "municipio_selecionado", w |-> [w EXCEPT !.municipio_selecionado = m]] :
            m \in AppMunicipios \ {w.municipio_selecionado} }
        \cup { [trigger |-> "estacao_selecionada", w |-> [w EXCEPT !.estacao_selecionada = e]] :
                 e \in Range(search_ana_stations(w.municipio_selecionado, estado[w.municipio_selecionado])) \ {w.estacao_selecionada} }
        \cup { [trigger |-> "num_dias", w |-> [w EXCEPT !.num_dias = n]] :
                 n \in AppDays \ {w.num_dias} }
        \cup { [trigger |-> "temp_max", w |-> [w EXCEPT !.temp_max = t]] :
                 t \in {F(180), F(280)} \ {w.temp_max} }
        \cup { [trigger |-> "umidade", w |-> [w EXCEPT !.umidade = u]] :
                 u \in {F(650), F(1000)} \ {w.umidade} }
        \cup (IF InSeq(Elem("checkbox", 720, 0), pg.trace)
              THEN {[trigger |-> "usar_dados_ana", w |-> [w EXCEPT !.usar_dados_ana = TRUE]]}
              ELSE {})
     ELSE IF w.opcao = "csv" THEN
        { [trigger |-> "uploaded_file", w |-> [w EXCEPT !.uploaded_file = f]] :
            f \in IF w.uploaded_file = NoFile THEN Files ELSE {NoFile} }
        \cup (IF CsvReady(w)
              THEN { [trigger |-> "municipio_csv", w |-> [w EXCEPT !.municipio_csv = m]] :
                       m \in {"Itirapina", "Santos"} \ {w.municipio_csv} }
                   \cup { [trigger |-> "dias_previsao", w |-> [w EXCEPT !.dias_previsao = n]] :
                            n \in CsvDays \ {w.dias_previsao} }
              ELSE {})
     ELSE IF w.opcao = "comparativa" THEN
        { [trigger |-> "municipios_selecionados", w |-> [w EXCEPT !.municipios_selecionados = s]] :
            s \in SelectionChanges(w.municipios_selecionados) }
     ELSE IF w.opcao = "ana" THEN
        { [trigger |-> "municipio_ana", w |-> [w EXCEPT !.municipio_ana = m]] :
            m \in AppMunicipios \ {w.municipio_ana} }
        \cup { [trigger |-> "estacao_selecionada", w |-> [w EXCEPT !.estacao_selecionada = e]] :
                 e \in Range(search_ana_stations(w.municipio_ana, estado[w.municipio_ana])) \ {w.estacao_selecionada} }
     ELSE
        { [trigger |-> "demo_municipio", w |-> [w EXCEPT !.demo_municipio = m]] :
            m \in DemoMunicipios \ {w.demo_municipio} }
        \cup { [trigger |-> "demo_temp", w |-> [w EXCEPT !.demo_temp = t]] :
                 t \in {F(250), F(350)} \ {w.demo_temp} })

\* The buttons the page shows enabled; a download button is a button too.
EnabledButtons(pg) ==
    { b \in DOMAIN ButtonLine : InSeq(Elem("button", ButtonLine[b], 1), pg.trace) }
    \cup (IF \E i \in DOMAIN pg.trace : pg.trace[i].kind = "download"
          THEN {"download_button"} ELSE {})

InitApp ==
    /\ pc = "app"
    /\ ValIdle
    /\ FeatIdle
    /\ fetch = NoFetch
    /\ MetricsIdle
    /\ MoreIdle
    /\ widgets = Normalise(DefaultWidgets)
    /\ page = Rerun(widgets, "load", NoEnv, FALSE)

\* The widget values Streamlit holds after the rerun that rendered pg: the
\* value of the checkbox of line 720 is dropped by a rerun that did not
\* render it.
Kept(w, pg) ==
    [w EXCEPT !.usar_dados_ana =
        @ /\ \E i \in DOMAIN pg.trace : pg.trace[i].kind = "checkbox"]

\* The user changes the value of a widget of the page: main() runs again.
ChangeWidget ==
    /\ pc = "app"
    /\ \E c \in WidgetChanges(widgets, page) :
         LET w == Normalise(c.w)
         IN  \E env \in Envs(w, c.trigger) :
               /\ page' = Rerun(w, c.trigger, env, HasForecast(page))
               /\ widgets' = Kept(w, page')
    /\ UNCHANGED <<pc, valVars, featVars, fetch, metricsVars, moreVars>>

\* The user clicks a button of the page: main() runs again.
ClickButton ==
    /\ pc = "app"
    /\ \E b \in EnabledButtons(page) :
         \E env \in Envs(widgets, b) :
            /\ page' = Rerun(widgets, b, env, HasForecast(page))
            /\ widgets' = Kept(widgets, page')
    /\ UNCHANGED <<pc, valVars, featVars, fetch, metricsVars, moreVars>>

NextApp == ChangeWidget \/ ClickButton

SpecApp == InitApp /\ [][NextApp]_vars

(***************************************************************************)
(* src/app.py: generate_enhanced_historical_data (lines 270..356).  Days   *)
(* are integers, the day of the year of day d is ((d - 1) % 365) + 1 (leap *)
(* years are left out).  Humidity, the seasonal pattern and the random     *)
(* draws are in thousandths, precipitation before rounding in 1/100000 mm  *)
(* and after np.round(., 2) in hundredths of a millimetre.  The columns     *)
(* temp_max, temp_min, pressao, vel_vento and rad_solar are not modelled.  *)
(***************************************************************************)
\* municipio_params (lines 277..313); precip_factor in tenths.
municipio_params ==
    [Itirapina |->
        [temp_base |-> 22, temp_var |-> 8, humidity_base |-> 65, precip_factor |-> 10],
     Santos |->
        [temp_base |-> 25, temp_var |-> 6, humidity_base |-> 75, precip_factor |-> 13],
     Cuiaba |->
        [temp_base |-> 28, temp_var |-> 10, humidity_base |-> 60, precip_factor |-> 7],
     Natal |->
        [temp_base |-> 27, temp_var |-> 4, humidity_base |-> 70, precip_factor |-> 11],
     Campinas |->
        [temp_base |-> 23, temp_var |-> 7, humidity_base |-> 68, precip_factor |-> 10],
     RibeiraoPreto |->
        [temp_base |-> 26, temp_var |-> 8, humidity_base |-> 62, precip_factor |-> 9],
     SaoJoseDosCampos |->
        [temp_base |-> 22, temp_var |-> 7, humidity_base |-> 70, precip_factor |-> 10],
     Sorocaba |->
        [temp_base |-> 23, temp_var |-> 7, humidity_base |-> 69, precip_factor |-> 10],
     Piracicaba |->
        [temp_base |-> 24, temp_var |-> 8, humidity_base |-> 67, precip_factor |-> 10],
     Bauru |->
        [temp_base |-> 25, temp_var |-> 9, humidity_base |-> 63, precip_factor |-> 8],
     Araraquara |->
        [temp_base |-> 24, temp_var |-> 8, humidity_base |-> 65, precip_factor |-> 9],
     SaoCarlos |->
        [temp_base |-> 23, temp_var |-> 7, humidity_base |-> 68, precip_factor |-> 10],
     Franca |->
        [temp_base |-> 23, temp_var |-> 8, humidity_base |-> 64, precip_factor |-> 9],
     PresidentePrudente |->
        [temp_base |-> 26, temp_var |-> 9, humidity_base |-> 61, precip_factor |-> 8],
     Marilia |->
        [temp_base |-> 24, temp_var |-> 8, humidity_base |-> 65, precip_factor |-> 9],
     Aracatuba |->
        [temp_base |-> 27, temp_var |-> 9, humidity_base |-> 60, precip_factor |-> 8],
     Botucatu |->
        [temp_base |-> 23, temp_var |-> 8, humidity_base |-> 66, precip_factor |-> 9],
     RioClaro |->
        [temp_base |-> 23, temp_var |-> 7, humidity_base |-> 67, precip_factor |-> 10],
     Limeira |->
        [temp_base |-> 24, temp_var |-> 7, humidity_base |-> 68, precip_factor |-> 10],
     Americana |->
        [temp_base |-> 24, temp_var |-> 7, humidity_base |-> 68, precip_factor |-> 10],
     Jundiai |->
        [temp_base |-> 23, temp_var |-> 7, humidity_base |-> 69, precip_factor |-> 10],
     Taubate |->
        [temp_base |-> 23, temp_var |-> 7, humidity_base |-> 70, precip_factor |-> 10],
     Guaratingueta |->
        [temp_base |-> 22, temp_var |-> 7, humidity_base |-> 71, precip_factor |-> 10],
     Jacarei |->
        [temp_base |-> 23, temp_var |-> 7, humidity_base |-> 70, precip_factor |-> 10],
     MogiDasCruzes |->
        [temp_base |-> 22, temp_var |-> 7, humidity_base |-> 72, precip_factor |-> 10],
     Suzano |->
        [temp_base |-> 23, temp_var |-> 7, humidity_base |-> 71, precip_factor |-> 11],
     Diadema |->
        [temp_base |-> 24, temp_var |-> 6, humidity_base |-> 73, precip_factor |-> 11],
     CampoGrande |->
        [temp_base |-> 26, temp_var |-> 8, humidity_base |-> 65, precip_factor |-> 9],
     Londrina |->
        [temp_base |-> 23, temp_var |-> 8, humidity_base |-> 68, precip_factor |-> 10],
     Maringa |->
        [temp_base |-> 24, temp_var |-> 8, humidity_base |-> 67, precip_factor |-> 10],
     Cascavel |->
        [temp_base |-> 22, temp_var |-> 9, humidity_base |-> 66, precip_factor |-> 10],
     JoaoPessoa |->
        [temp_base |-> 28, temp_var |-> 4, humidity_base |-> 72, precip_factor |-> 12],
     Recife |->
        [temp_base |-> 27, temp_var |-> 5, humidity_base |-> 75, precip_factor |-> 13],
     Salvador |->
        [temp_base |-> 27, temp_var |-> 5, humidity_base |-> 74, precip_factor |-> 12],
     Aracaju |->
        [temp_base |-> 28, temp_var |-> 4, humidity_base |-> 73, precip_factor |-> 12]]

\* np.sin(2 * np.pi * (day_of_year - 80) / 365) in thousandths (line 319),
\* for day_of_year = 1..366.
seasonal_table ==
    <<
      -978, -974, -970, -966, -961, -956, -951, -946, -940, -934, -928, -921,
      -914, -907, -900, -892, -884, -876, -867, -859, -850, -841, -831, -821,
      -812, -801, -791, -780, -769, -758, -747, -735, -724, -712, -699, -687,
      -674, -662, -649, -635, -622, -608, -595, -581, -567, -552, -538, -523,
      -509, -494, -479, -464, -448, -433, -417, -401, -386, -370, -354, -338,
      -321, -305, -288, -272, -255, -239, -222, -205, -188, -171, -154, -137,
      -120, -103, -86, -69, -52, -34, -17, 0, 17, 34, 52, 69,
      86, 103, 120, 137, 154, 171, 188, 205, 222, 239, 255, 272,
      288, 305, 321, 338, 354, 370, 386, 401, 417, 433, 448, 464,
      479, 494, 509, 523, 538, 552, 567, 581, 595, 608, 622, 635,
      649, 662, 674, 687, 699, 712, 724, 735, 747, 758, 769, 780,
      791, 801, 812, 821, 831, 841, 850, 859, 867, 876, 884, 892,
      900, 907, 914, 921, 928, 934, 940, 946, 951, 956, 961, 966,
      970, 974, 978, 981, 984, 987, 990, 992, 994, 996, 997, 998,
      999, 1000, 1000, 1000, 1000, 999, 998, 997, 995, 993, 991, 989,
      986, 983, 980, 976, 972, 968, 963, 959, 954, 948, 943, 937,
      931, 924, 918, 911, 903, 896, 888, 880, 872, 863, 854, 845,
      836, 826, 817, 806, 796, 786, 775, 764, 753, 741, 730, 718,
      706, 693, 681, 668, 655, 642, 629, 615, 602, 588, 574, 560,
      545, 531, 516, 501, 486, 471, 456, 441, 425, 409, 394, 378,
      362, 346, 329, 313, 297, 280, 264, 247, 230, 214, 197, 180,
      163, 146, 129, 112, 95, 77, 60, 43, 26, 9, -9, -26,
      -43, -60, -77, -95, -112, -129, -146, -163, -180, -197, -214, -230,
      -247, -264, -280, -297, -313, -329, -346, -362, -378, -394, -409, -425,
      -441, -456, -471, -486, -501, -516, -531, -545, -560, -574, -588, -602,
      -615, -629, -642, -655, -668, -681, -693, -706, -718, -730, -741, -753,
      -764, -775, -786, -796, -806, -817, -826, -836, -845, -854, -863, -872,
      -880, -888, -896, -903, -911, -918, -924, -931, -937, -943, -948, -954,
      -959, -963, -968, -972, -976, -980, -983, -986, -989, -991, -993, -995,
      -997, -998, -999, -1000, -1000, -1000, -1000, -999, -998, -997, -996, -994,
      -992, -990, -987, -984, -981, -978
    >>

dayofyear(d) == ((d - 1) % 365) + 1

seasonal_pattern(d) == seasonal_table[dayofyear(d)]

\* np.clip(x, lo, hi)
NpClip(x, lo, hi) == IF x < lo THEN lo ELSE IF x > hi THEN hi ELSE x

\* Faulty variant: the lower bound of line 330 is missing.
NpMaximum0_none(x) == x

\* np.maximum(0, x) of a finite x (lines 330 and, in ana_streamlit_data.py,
\* 33 and 39).
NpMaximum0(x) == IF x > 0 THEN x ELSE 0

\* np.round(num / den, .): to the nearest integer, ties to even.
NpRound(num, den) == Round3(<<num, den>>)

\* Lines 326..327: umidade_base of one day, in thousandths; `normal` is the
\* draw of np.random.normal(0, 8).
UmidadeBase(params, sp, normal) ==
    NpClip(params.humidity_base * 1000 - sp * 15 + normal, 10000, 95000)

\* Lines 330..334 and 345: precipitacao of one day, in hundredths; `expo`
\* is the draw of np.random.exponential(1.5).
PrecipBase(params, sp, umidade_base, expo) ==
    NpRound(NpMaximum0((umidade_base - 50000) * 3 * params.precip_factor
                       + sp * 30 * params.precip_factor
                       + expo * 100),
            1000)

\* Lines 273..274: the dates of the table, num_days days ending the day
\* before `now`.
HistDates(now, num_days) == date_range(now - num_days, num_days)

\* Lines 315..345: one row per date.  normal[i] and expo[i] are the draws
\* for row i.
HistRows(params, dates, normal, expo) ==
    [i \in 1..Len(dates) |->
        [data |-> dates[i],
         umidade |-> UmidadeBase(params, seasonal_pattern(dates[i]), normal[i]),
         precipitacao |->
             PrecipBase(params, seasonal_pattern(dates[i]),
                        UmidadeBase(params, seasonal_pattern(dates[i]), normal[i]),
                        expo[i])]]

\* generate_enhanced_historical_data(municipio, num_days) with the values it
\* generates.  pd.date_range raises for a negative number of periods, and
\* `raises` is any other exception in lines 273..350; both reach line 354.
HistoricalData(municipio, num_days, now, normal, expo, raises) ==
    IF num_days < 0 \/ raises
    THEN [municipio |-> municipio, num_days |-> num_days, now |-> now,
          ok |-> FALSE, rows |-> <<>>, msgs |-> <<Elem("error", 355, 0)>>]
    ELSE [municipio |-> municipio, num_days |-> num_days, now |-> now,
          ok |-> TRUE,
          rows |-> HistRows(DictGet(municipio_params, municipio,
                                    municipio_params["Itirapina"]),
                            HistDates(now, num_days), normal, expo),
          msgs |-> <<>>]

MaxHistDays == 2

\* The largest draw of np.random.normal(0, 8) considered, in thousandths.
HistNoiseMax == 40000

\* The largest draw of np.random.exponential(1.5) considered, in thousandths.
ExpoMax == 9000

HistMunicipios == {"Itirapina", "Santos", "Cuiaba", "Outro"}

HistNormal == {-HistNoiseMax, 0, HistNoiseMax}

HistExpo == {0, ExpoMax}

InitHistory ==
    /\ pc = "input"
    /\ ValIdle
    /\ FeatIdle
    /\ fetch = NoFetch
    /\ MetricsIdle
    /\ AppIdle
    /\ hist = <<>>
    /\ sim = <<>>
    /\ lookup = <<>>
    /\ cache = <<>>
    /\ twin = <<>>

Generate ==
    /\ pc = "input"
    /\ \E municipio \in HistMunicipios, num_days \in -1..MaxHistDays,
          now \in {1, 171, 353}, raises \in BOOLEAN :
         \E normal \in [1..(IF num_days < 0 THEN 0 ELSE num_days) -> HistNormal],
            expo \in [1..(IF num_days < 0 THEN 0 ELSE num_days) -> HistExpo] :
            hist' = HistoricalData(municipio, num_days, now, normal, expo, raises)
    /\ pc' = "history"
    /\ UNCHANGED <<valVars, featVars, fetch, metricsVars, appVars, sim, lookup, cache, twin>>

NextHistory == Generate

SpecHistory == InitHistory /\ [][NextHistory]_vars

(***************************************************************************)
(* src/ana_streamlit_data.py: fetch_ana_station_data (lines 7..51) and     *)
(* get_list_of_stations (lines 53..71).  A draw of np.random.normal is     *)
(* given in standard deviations (an integer z), a draw of                  *)
(* np.random.exponential in thousandths; the values before rounding are    *)
(* in thousandths and after np.round(., 2) in hundredths.  numpy derives a *)
(* normal draw from 53-bit uniform draws, which keeps it within about 12   *)
(* standard deviations.                                                    *)
(***************************************************************************)
\* The column tipo_dados of get_list_of_stations (lines 66..70).
tipo_dados ==
    <<"precipitacao", "nivel", "precipitacao", "descarga", "nivel",
      "precipitacao", "nivel", "precipitacao", "descarga", "nivel",
      "precipitacao", "nivel", "precipitacao", "descarga", "nivel",
      "precipitacao", "nivel", "precipitacao", "descarga", "nivel",
      "precipitacao", "nivel", "precipitacao", "descarga", "nivel">>

\* Faulty variant: 'descarga' is not accepted.
ValidDataType_two(data_type) == data_type \in {"precipitacao", "nivel"}

\* The test of line 19.
ValidDataType(data_type) == data_type \in {"precipitacao", "nivel", "descarga"}

\* Faulty variant: the range begins at `end`.
date_range_end_from(end, periods) == [i \in 1..periods |-> end + (i - 1)]

\* pd.date_range(end=end, periods=periods, freq='D') (line 25).
date_range_end(end, periods) == [i \in 1..periods |-> end - periods + i]

\* np.sin(np.linspace(0, 2 * np.pi, num_days))[i - 1] in thousandths (line
\* 37), for num_days up to 5.
SinLinspace(num_days, i) ==
    <<<<0>>, <<0, 0>>, <<0, 0, 0>>, <<0, 866, -866, 0>>,
      <<0, 1000, 0, -1000, 0>>>>[num_days][i]

\* 20 * exp(0.4 * z) in hundredths, for z = -14..14: the draw of
\* np.random.lognormal(mean=np.log(20.0), sigma=0.4) (line 43) from the
\* normal draw z, rounded by line 47.
LognormalTable ==
    <<7, 11, 16, 25, 37, 55, 82, 122, 181, 271, 404, 602, 899, 1341, 2000,
      2984, 4451, 6640, 9906, 14778, 22046, 32889, 49065, 73196, 109196,
      162902, 243021, 362544, 540853>>

\* Lines 28..43 and the rounding of line 47: the value of row i.
SimValue(data_type, num_days, i, z, expo) ==
    IF data_type = "precipitacao"
    THEN NpRound(NpMaximum0(expo + 3000 * z), 10)
    ELSE IF data_type = "nivel"
    THEN NpRound(NpMaximum0(5000 + 2 * SinLinspace(num_days, i) + 500 * z), 10)
    ELSE LognormalTable[z + 15]

\* Lines 24..50 on the dates of line 25.
SimFrame(dates, data_type, z, expo) ==
    [index_name |-> "data",
     columns |-> <<data_type>>,
     index |-> dates,
     values |-> [i \in 1..Len(dates) |-> SimValue(data_type, Len(dates), i, z[i], expo[i])]]

NoFrame == [index_name |-> "", columns |-> <<>>, index |-> <<>>, values |-> <<>>]

\* fetch_ana_station_data(station_code, num_days, data_type) of
\* ana_streamlit_data.py: what it printed, raised and returned.
\* pd.date_range raises for a negative number of periods.
ana_fetch_ana_station_data(station_code, num_days, data_type, now, z, expo) ==
    IF ~ValidDataType(data_type)
    THEN [station_code |-> station_code, num_days |-> num_days,
          data_type |-> data_type, now |-> now,
          raised |-> "ValueError", printed |-> FALSE, ret |-> NoFrame]
    ELSE IF num_days < 0
    THEN [station_code |-> station_code, num_days |-> num_days,
          data_type |-> data_type, now |-> now,
          raised |-> "ValueError", printed |-> TRUE, ret |-> NoFrame]
    ELSE [station_code |-> station_code, num_days |-> num_days,
          data_type |-> data_type, now |-> now,
          raised |-> "", printed |-> TRUE,
          ret |-> SimFrame(date_range_end(now, num_days), data_type, z, expo)]

MaxSimDays == 3

\* The largest normal draw, in standard deviations.
ZMax == 12

\* The largest draw of np.random.exponential(0.5) considered, in thousandths.
SimExpoMax == 5000

\* The data types a caller may pass: those of the station list and others.
DataTypes == Range(tipo_dados) \cup {"temperatura", "Precipitacao"}

InitAna ==
    /\ pc = "input"
    /\ ValIdle
    /\ FeatIdle
    /\ fetch = NoFetch
    /\ MetricsIdle
    /\ AppIdle
    /\ hist = <<>>
    /\ sim = <<>>
    /\ lookup = <<>>
    /\ cache = <<>>
    /\ twin = <<>>

Simulate ==
    /\ pc = "input"
    /\ \E station_code \in {"35520000", "54100020"}, num_days \in -1..MaxSimDays,
          data_type \in DataTypes, now \in {1, 200} :
         \E z \in [1..(IF num_days < 0 THEN 0 ELSE num_days) -> {-ZMax, 0, ZMax}],
            expo \in [1..(IF num_days < 0 THEN 0 ELSE num_days) -> {0, SimExpoMax}] :
            sim' = ana_fetch_ana_station_data(station_code, num_days, data_type, now, z, expo)
    /\ pc' = "simulated"
    /\ UNCHANGED <<valVars, featVars, fetch, metricsVars, appVars, hist, lookup, cache, twin>>

NextAna == Simulate

SpecAna == InitAna /\ [][NextAna]_vars

(***************************************************************************)
(* src/app.py: main(), two sessions on the individual panel side by side.  *)
(* Both receive the same events and the same environment, except for what  *)
(* the ANA service answers to the fetch of line 689.  `page` is the page   *)
(* of the first session and twin.page that of the second; twin.ana and     *)
(* twin.alt_ana are the tables the latest fetch returned in each, and      *)
(* twin.opted tells that the checkbox of line 720 was ticked since.        *)
(***************************************************************************)
InitOptIn ==
    /\ pc = "optin"
    /\ ValIdle
    /\ FeatIdle
    /\ fetch = NoFetch
    /\ MetricsIdle
    /\ hist = <<>>
    /\ sim = <<>>
    /\ lookup = <<>>
    /\ cache = <<>>
    /\ widgets = Normalise(DefaultWidgets)
    /\ page = Rerun(widgets, "load", NoEnv, FALSE)
    /\ twin = [ana |-> EmptyFrame, alt_ana |-> EmptyFrame, opted |-> FALSE, page |-> page]

\* What the ANA service answers in these sessions: nothing, no record, or
\* one record with either of two rainfall values.
OptInResponses ==
    { [status |-> "timeout", items |-> <<>>], [status |-> "ok", items |-> <<>>],
      [status |-> "ok", items |-> <<[DataHora |-> F(15), Chuva |-> F(25)]>>],
      [status |-> "ok", items |-> <<[DataHora |-> F(15), Chuva |-> F(0)]>>] }

\* The click on the fetch button of line 687, answered differently or alike.
FetchBoth ==
    /\ "buscar_ana" \in EnabledButtons(page) \cap EnabledButtons(twin.page)
    /\ \E r1 \in OptInResponses, r2 \in OptInResponses :
         /\ page' = Rerun(widgets, "buscar_ana", [NoEnv EXCEPT !.response = r1],
                          HasForecast(page))
         /\ twin' = [ana |-> fetch_ana_station_data(widgets.estacao_selecionada, r1).ret,
                     alt_ana |-> fetch_ana_station_data(widgets.estacao_selecionada, r2).ret,
                     opted |-> FALSE,
                     page |-> Rerun(widgets, "buscar_ana", [NoEnv EXCEPT !.response = r2],
                                    HasForecast(twin.page))]
    /\ UNCHANGED <<pc, valVars, featVars, fetch, metricsVars, widgets, hist, sim, lookup, cache>>

\* The checkbox of line 720 is ticked where both pages show it.
TickBoth ==
    /\ InSeq(Elem("checkbox", 720, 0), page.trace)
    /\ InSeq(Elem("checkbox", 720, 0), twin.page.trace)
    /\ LET w == [widgets EXCEPT !.usar_dados_ana = TRUE]
       IN  /\ page' = Rerun(w, "usar_dados_ana", NoEnv, HasForecast(page))
           /\ twin' = [twin EXCEPT !.opted = TRUE,
                                   !.page = Rerun(w, "usar_dados_ana", NoEnv,
                                                  HasForecast(twin.page))]
           /\ widgets' = Kept(w, page')
    /\ UNCHANGED <<pc, valVars, featVars, fetch, metricsVars, hist, sim, lookup, cache>>

\* The forecast period or a slider is changed.
AdjustBoth ==
    /\ \E c \in { x \in WidgetChanges(widgets, page) :
                    x.trigger \in {"num_dias", "temp_max"} } :
         /\ widgets' = Normalise(c.w)
         /\ page' = Rerun(widgets', c.trigger, NoEnv, HasForecast(page))
         /\ twin' = [twin EXCEPT !.page = Rerun(widgets', c.trigger, NoEnv,
                                                HasForecast(twin.page))]
    /\ UNCHANGED <<pc, valVars, featVars, fetch, metricsVars, hist, sim, lookup, cache>>

\* The click on the generate button of line 771, with the same noise and
\* day in both sessions; no helper fails.
GenerateBoth ==
    /\ "gerar_previsao" \in EnabledButtons(page) \cap EnabledButtons(twin.page)
    /\ \E env \in { [NoEnv EXCEPT !.noise = v, !.now = d] :
                      v \in NoiseVals, d \in {F(15), F(196)} } :
         /\ page' = Rerun(widgets, "gerar_previsao", env, HasForecast(page))
         /\ twin' = [twin EXCEPT !.page = Rerun(widgets, "gerar_previsao", env,
                                                HasForecast(twin.page))]
    /\ UNCHANGED <<pc, valVars, featVars, fetch, metricsVars, widgets, hist, sim, lookup, cache>>

NextOptIn == FetchBoth \/ TickBoth \/ AdjustBoth \/ GenerateBoth

SpecOptIn == InitOptIn /\ [][NextOptIn]_vars

(***************************************************************************)
(* src/app.py: get_municipios_data (lines 496..551) and the lookups of the *)
(* per-city tables (lines 239, 315 and 399).  Names are written without    *)
(* accents and spaces, the same way in the list and in the tables; the     *)
(* source spells each name alike in all four places.                       *)
(***************************************************************************)
\* Faulty variant: a city is offered that the tables do not hold.
cidade_more ==
    <<"Itirapina", "Campinas", "RibeiraoPreto", "Santos", "SaoJoseDosCampos",
      "Sorocaba", "Piracicaba", "Bauru", "Araraquara", "SaoCarlos",
      "Franca", "PresidentePrudente", "Marilia", "Aracatuba", "Botucatu",
      "RioClaro", "Limeira", "Americana", "Jundiai", "Taubate",
      "Guaratingueta", "Jacarei", "MogiDasCruzes", "Suzano", "Diadema",
      "Cuiaba", "CampoGrande", "Londrina", "Maringa", "Cascavel",
      "Natal", "JoaoPessoa", "Recife", "Salvador", "Aracaju", "SaoPaulo">>

\* The column 'cidade' of get_municipios_data (lines 500..508).
cidade ==
    <<"Itirapina", "Campinas", "RibeiraoPreto", "Santos", "SaoJoseDosCampos",
      "Sorocaba", "Piracicaba", "Bauru", "Araraquara", "SaoCarlos",
      "Franca", "PresidentePrudente", "Marilia", "Aracatuba", "Botucatu",
      "RioClaro", "Limeira", "Americana", "Jundiai", "Taubate",
      "Guaratingueta", "Jacarei", "MogiDasCruzes", "Suzano", "Diadema",
      "Cuiaba", "CampoGrande", "Londrina", "Maringa", "Cascavel",
      "Natal", "JoaoPessoa", "Recife", "Salvador", "Aracaju">>

PerCityTables == {"municipio_factors", "municipio_params", "base_metrics"}

\* The dict a table name stands for.
TableOf(table) ==
    IF table = "municipio_factors" THEN municipio_factors
    ELSE IF table = "municipio_params" THEN municipio_params
    ELSE base_metrics_literal

\* The default of the .get of lines 239, 315 and 399.
FallbackOf(table) ==
    IF table = "municipio_factors" THEN 10
    ELSE IF table = "municipio_params" THEN municipio_params["Itirapina"]
    ELSE base_metrics_literal["Itirapina"]

\* table.get(municipio, default): whether the table holds the name, and
\* the value the lookup gives.
LookupIn(table, municipio) ==
    [municipio |-> municipio, table |-> table,
     own |-> municipio \in DOMAIN TableOf(table),
     value |-> DictGet(TableOf(table), municipio, FallbackOf(table))]

\* The names a caller may pass: those offered, and some that are not.
LookupNames == Range(cidade) \cup {"Outro", "itirapina", "SaoVicente", ""}

InitLookup ==
    /\ pc = "input"
    /\ ValIdle
    /\ FeatIdle
    /\ fetch = NoFetch
    /\ MetricsIdle
    /\ AppIdle
    /\ hist = <<>>
    /\ sim = <<>>
    /\ lookup = <<>>
    /\ cache = <<>>
    /\ twin = <<>>

Lookup ==
    /\ \E table \in PerCityTables, municipio \in LookupNames :
         lookup' = LookupIn(table, municipio)
    /\ pc' = "lookup"
    /\ UNCHANGED <<valVars, featVars, fetch, metricsVars, appVars, hist, sim, cache, twin>>

NextLookup == Lookup

SpecLookup == InitLookup /\ [][NextLookup]_vars

(***************************************************************************)
(* src/app.py: @st.cache_data(ttl=3600) around fetch_ana_station_data      *)
(* (line 411).  Streamlit keeps, per function, the value returned for each *)
(* tuple of arguments together with the elements the call rendered; an     *)
(* entry is used while the clock is less than the time it was stored plus  *)
(* ttl, and a call that finds none runs the body and stores what it        *)
(* returned.  The body swallows every exception (line 460), so every run   *)
(* returns and is stored.  `cache` holds the clock in seconds, the         *)
(* entries, the times of the HTTP requests sent for each key, and the      *)
(* latest call.  Calls are made one after the other, and nobody clears the *)
(* cache by hand.                                                          *)
(***************************************************************************)
ttl == 3600

\* The seconds that pass between two observations of the clock.
ClockStep == 1800

MaxTicks == 5

\* (codigo_estacao, data_inicio, data_fim) of the calls.
CacheKeys ==
    { <<"12345000", "01/01/2024", "31/01/2024">>,
      <<"12345000", "01/01/2024", "29/02/2024">> }

\* What the service answers: nothing, or one record.
CacheResponses ==
    { [status |-> "timeout", items |-> <<>>],
      [status |-> "ok", items |-> <<[DataHora |-> F(15), Chuva |-> F(25)]>>] }

NoEntry == [stored |-> -1, ret |-> EmptyFrame, msgs |-> <<>>]

NoCachedCall == [key |-> <<>>, time |-> 0, hit |-> FALSE, requests |-> 0,
                 ret |-> EmptyFrame, msgs |-> <<>>, before |-> NoEntry]

\* An entry is fresh while less than ttl seconds old.
Fresh(entry, now) == entry # NoEntry /\ now < entry.stored + ttl

\* Faulty variant: an empty table is not stored.
StoreEntry_nonempty(entry, run, now) ==
    IF run.ret = EmptyFrame THEN entry
    ELSE [stored |-> now, ret |-> run.ret, msgs |-> run.msgs]

\* What the cache holds for the key after the body ran.
StoreEntry(entry, run, now) == [stored |-> now, ret |-> run.ret, msgs |-> run.msgs]

\* One call of the decorated function at time `now`: the entry afterwards,
\* the requests sent, and what the caller gets.
CachedCall(entry, key, run, now) ==
    IF Fresh(entry, now)
    THEN [entry |-> entry,
          call |-> [key |-> key, time |-> now, hit |-> TRUE, requests |-> 0,
                    ret |-> entry.ret, msgs |-> entry.msgs, before |-> entry]]
    ELSE [entry |-> StoreEntry(entry, run, now),
          call |-> [key |-> key, time |-> now, hit |-> FALSE, requests |-> run.requests,
                    ret |-> run.ret, msgs |-> run.msgs, before |-> entry]]

\* The request times of a key, with those of one more call.
Logged(times, call) ==
    times \o [i \in 1..call.requests |-> call.time]

InitCache ==
    /\ pc = "input"
    /\ ValIdle
    /\ FeatIdle
    /\ fetch = NoFetch
    /\ MetricsIdle
    /\ AppIdle
    /\ hist = <<>>
    /\ sim = <<>>
    /\ lookup = <<>>
    /\ twin = <<>>
    /\ cache = [clock |-> 0,
                entries |-> [k \in CacheKeys |-> NoEntry],
                log |-> [k \in CacheKeys |-> <<>>],
                last |-> NoCachedCall]

\* Time passes.
Tick ==
    /\ cache.clock < MaxTicks * ClockStep
    /\ cache' = [cache EXCEPT !.clock = @ + ClockStep]
    /\ UNCHANGED <<pc, valVars, featVars, fetch, metricsVars, appVars, hist, sim, lookup, twin>>

\* fetch_ana_station_data(codigo_estacao, data_inicio, data_fim) is called.
CallCached ==
    /\ \E key \in CacheKeys, response \in CacheResponses :
         LET done == CachedCall(cache.entries[key], key,
                                fetch_ana_station_data(key[1], response), cache.clock)
         IN  cache' = [cache EXCEPT !.entries[key] = done.entry,
                                    !.log[key] = Logged(@, done.call),
                                    !.last = done.call]
    /\ pc' = "cached"
    /\ UNCHANGED <<valVars, featVars, fetch, metricsVars, appVars, hist, sim, lookup, twin>>

NextCache == Tick \/ CallCached

SpecCache == InitCache /\ [][NextCache]_vars

(***************************************************************************)
(* src/app.py: main(), the sliders of the individual panel (lines          *)
(* 744..751) and its generate button.  Every slider takes the least and    *)
(* the greatest value it allows and the value it starts with; temp_max     *)
(* also takes the initial value of temp_min.                               *)
(***************************************************************************)
SliderValues ==
    [temp_max |-> {F(-100), F(180), F(280), F(500)},
     temp_min |-> {F(-150), F(180), F(400)},
     umidade |-> {F(0), F(650), F(1000)},
     pressao |-> {F(9500), F(10130), F(10500)},
     vel_vento |-> {F(0), F(80), F(250)}]

\* The values validate_meteorological_data is given at line 763.
dados_validacao(w) ==
    [temp_max |-> w.temp_max, temp_min |-> w.temp_min, umidade |-> w.umidade,
     pressao |-> w.pressao, vel_vento |-> w.vel_vento]

InitSliders ==
    /\ pc = "sliders"
    /\ ValIdle
    /\ FeatIdle
    /\ fetch = NoFetch
    /\ MetricsIdle
    /\ MoreIdle
    /\ widgets = Normalise(DefaultWidgets)
    /\ page = Rerun(widgets, "load", NoEnv, FALSE)

\* A slider is moved: main() runs again.
MoveSlider ==
    /\ \E k \in DOMAIN SliderValues :
         \E v \in SliderValues[k] \ {widgets[k]} :
            /\ widgets' = Normalise([widgets EXCEPT ![k] = v])
            /\ page' = Rerun(widgets', k, NoEnv, HasForecast(page))
    /\ UNCHANGED <<pc, valVars, featVars, fetch, metricsVars, moreVars>>

\* The generate button is clicked where the page shows it enabled.
ClickGenerate ==
    /\ "gerar_previsao" \in EnabledButtons(page)
    /\ \E env \in { [NoEnv EXCEPT !.noise = v] : v \in NoiseVals } :
         page' = Rerun(widgets, "gerar_previsao", env, HasForecast(page))
    /\ UNCHANGED <<pc, valVars, featVars, fetch, metricsVars, widgets, moreVars>>

NextSliders == MoveSlider \/ ClickGenerate

SpecSliders == InitSliders /\ [][NextSliders]_vars

(***************************************************************************)
(* make_prediction_enhanced on tables of several rows with different       *)
(* dates, in every order.  The draws of the noise are kept with the        *)
(* result.                                                                 *)
(***************************************************************************)
\* Rows of these tables.
MaxOrderRows == 2

\* Dates in January, April and July and text that is no date; a cool humid
\* day and a warm dry day of low pressure.
OrderRows ==
    { Row(d, v[1], v[2], v[3]) :
        d \in {F(15), F(105), F(196), Garbled},
        v \in {<<F(100), F(900), F(10130)>>, <<F(300), F(400), F(9980)>>} }

InitOrder ==
    /\ pc = "input"
    /\ ValIdle
    /\ \E n \in 0..MaxOrderRows : df_input \in [1..n -> OrderRows]
    /\ feat = NoFeat
    /\ pred = NoPred
    /\ fetch = NoFetch
    /\ MetricsIdle
    /\ MoreIdle
    /\ AppIdle

\* One call of make_prediction_enhanced(df_input, 1, municipio).
PredictOrdered ==
    /\ pc = "input"
    /\ pc' = "ordered"
    /\ \E municipio \in PredMunicipios, featRaises \in BOOLEAN,
          predRaises \in BOOLEAN, noise \in [1..1 -> NoiseVals \cup {0}] :
            pred' = make_prediction_enhanced(df_input, 1, municipio, noise,
                                             featRaises, predRaises, 15)
                      @@ [noise |-> noise]
    /\ UNCHANGED <<valVars, df_input, feat, fetch, metricsVars, appVars, moreVars>>

NextOrder == PredictOrdered

SpecOrder == InitOrder /\ [][NextOrder]_vars

(***************************************************************************)
(* C1: whenever the dict holds 'umidade', the returned error list holds    *)
(* the humidity message exactly when umidade < 0 or umidade > 100, the     *)
(* call then returns is_valid = False, and 0 and 100 are accepted.         *)
(***************************************************************************)
C1_HumidityBounds ==
    (pc = "validated" /\ Has(data, "umidade")) =>
        LET u == data["umidade"]
            out == ~IsNaN(u) /\ (u[1] < 0 \/ u[1] > 1000)
        IN  /\ InSeq(MsgUmidade, vres[2]) <=> out
            /\ out => vres[1] = FALSE
            /\ u \in {F(0), F(1000)} => ~InSeq(MsgUmidade, vres[2])

C1_Witness ==
    /\ pc = "validated"
    /\ Has(data, "umidade")
    /\ data["umidade"] = F(1001)
    /\ vres = <<FALSE, <<MsgUmidade>>>>

(***************************************************************************)
(* C2: validate_temperature_range rejects every pair with                  *)
(* temp_min >= temp_max, returns (True, "") exactly when                   *)
(* -50 <= temp_max <= 60, -60 <= temp_min <= 50 and temp_min < temp_max,   *)
(* and in every other case returns False with a non-empty message.         *)
(* The three conditions are those of the claim, so they are false of a     *)
(* missing value.                                                          *)
(***************************************************************************)
InTempRanges(tmax, tmin) ==
    /\ ~IsNaN(tmax) /\ -500 <= tmax[1] /\ tmax[1] <= 600
    /\ ~IsNaN(tmin) /\ -600 <= tmin[1] /\ tmin[1] <= 500
    /\ tmin[1] < tmax[1]

C2_TemperatureRange ==
    (pc = "validated" /\ rangeCall # NoCall) =>
        LET tmax == rangeCall[1]
            tmin == rangeCall[2]
            ret == rangeCall[3]
        IN  /\ Ge(tmin, tmax) => ret[1] = FALSE
            /\ ret = <<TRUE, "">> <=> InTempRanges(tmax, tmin)
            /\ ~InTempRanges(tmax, tmin) => (ret[1] = FALSE /\ ret[2] # "")

(***************************************************************************)
(* C3: every value of the series make_prediction_enhanced returns is >= 0, *)
(* whatever the input rows, num_days, the municipality and the noise.      *)
(***************************************************************************)
C3_NonNegative ==
    pc = "predicted" =>
        \A k \in 1..Len(pred.ret) : ~IsNaN(pred.ret[k]) /\ pred.ret[k][1] >= 0

\* A forecast from a negative baseline: a day was clamped to 0 and another
\* day of the same series was not.
C3_Witness ==
    /\ pc = "predicted"
    /\ pred.ok
    /\ Len(pred.ret) = 2
    /\ pred.ret[1] = F(0)
    /\ pred.ret[2][1] > 0
    /\ Lt(BasePrecipitation(pred.fe.ret[Len(pred.fe.ret)], pred.municipio), F(0))

(***************************************************************************)
(* C4: on every return path, the table create_features_enhanced returns    *)
(* has no missing value in the columns make_prediction_enhanced reads      *)
(* (temp_max, umidade, pressao, mes).  A column the table does not have    *)
(* is not counted as a missing value here.                                 *)
(***************************************************************************)
DownstreamColumns == {"temp_max", "umidade", "pressao", "mes"}

C4_NoMissingDownstream ==
    pc = "features" =>
        \A i \in 1..Len(feat.ret) :
            \A c \in DownstreamColumns \cap DOMAIN feat.ret[i] : ~IsNaN(feat.ret[i][c])

(***************************************************************************)
(* C5: the date step of create_features_enhanced removes exactly the rows  *)
(* whose date cannot be parsed and keeps the others, in their order; a     *)
(* warning is shown if and only if a row was removed, and it reports the   *)
(* number of removed rows.                                                 *)
(***************************************************************************)
Unparseable(cell) == cell \in {Garbled, NaN}

RemovedRows == Cardinality({ i \in 1..Len(df_input) : Unparseable(df_input[i].data) })

DateWarnings ==
    SelectIdx(feat.msgs, {k \in 1..Len(feat.msgs) :
                            feat.msgs[k].kind = "warning" /\ feat.msgs[k].line = 134})

C5_DateStep ==
    pc = "features" =>
        /\ feat.dated = SelectIdx(df_input, {i \in 1..Len(df_input) : ~Unparseable(df_input[i].data)})
        /\ Len(DateWarnings) = (IF RemovedRows > 0 THEN 1 ELSE 0)
        /\ \A k \in 1..Len(DateWarnings) : DateWarnings[k].n = RemovedRows

C5_Witness ==
    /\ pc = "features"
    /\ Len(df_input) = 2
    /\ df_input[1].data = Garbled
    /\ df_input[2].data = F(15)
    /\ Len(feat.dated) = 1
    /\ feat.msgs = <<Elem("warning", 134, 1)>>

(***************************************************************************)
(* C6: in any rerun in which a helper (create_features_enhanced,           *)
(* make_prediction_enhanced, generate_enhanced_historical_data,            *)
(* fetch_ana_station_data) has caught an exception and shown its error     *)
(* message (lines 182, 266, 355, 461), no success message and no forecast  *)
(* is rendered afterwards in that rerun.                                   *)
(***************************************************************************)
HelperErrorLines == {182, 266, 355, 461}

C6_FailureStops ==
    pc = "app" =>
        \A i \in DOMAIN page.trace, j \in DOMAIN page.trace :
            (/\ i < j
             /\ page.trace[i].kind = "error"
             /\ page.trace[i].line \in HelperErrorLines)
            => page.trace[j].kind \notin {"success", "forecast"}

(***************************************************************************)
(* C7: one run of the body of app.fetch_ana_station_data sends at most one *)
(* HTTP request; when the transport fails, the status is an error or a     *)
(* record cannot be parsed, it shows an error and returns an empty table;  *)
(* no exception leaves the function.                                       *)
(***************************************************************************)
RecordUnparseable(item) ==
    \/ item.DataHora = NaN
    \/ /\ item.DataHora = Garbled
       /\ item.Chuva \notin {Absent, NaN}
    \/ /\ item.DataHora = F(15)
       /\ item.Chuva = Garbled

FetchFailure(response) ==
    \/ response.status \in {"timeout", "conn_error", "http_error", "xml_error"}
    \/ \E i \in 1..Len(response.items) : RecordUnparseable(response.items[i])

C7_FetchOnceNoRetry ==
    pc = "fetched" =>
        /\ fetch.requests <= 1
        /\ ~fetch.propagated
        /\ FetchFailure(fetch.response) =>
              (fetch.ret = EmptyFrame /\ fetch.msgs = <<Elem("error", 461, 0)>>)

C7_Witness ==
    /\ pc = "fetched"
    /\ fetch.response.status = "timeout"
    /\ fetch.requests = 1
    /\ fetch.ret = EmptyFrame
    /\ fetch.msgs = <<Elem("error", 461, 0)>>

(***************************************************************************)
(* C8: on the individual panel, a rerun caused by anything but the click   *)
(* on the generate button computes no forecast (no call of line 785),      *)
(* renders nothing of lines 772..993, and holds no forecast series, also   *)
(* when the page it replaces showed a forecast.                            *)
(***************************************************************************)
C8_ForecastOnlyOnClick ==
    (pc = "app" /\ widgets.opcao = "individual" /\ page.trigger # "gerar_previsao") =>
        /\ ~InSeq(Elem("call", 785, 0), page.trace)
        /\ ~HasForecast(page)
        /\ \A i \in DOMAIN page.trace : page.trace[i].line \notin 772..993
        /\ page.previsoes = EmptySeries

C8_Witness ==
    /\ pc = "app"
    /\ widgets.opcao = "individual"
    /\ page.forecast_before
    /\ page.trigger = "num_dias"
    /\ ~HasForecast(page)
    /\ page.previsoes = EmptySeries

(***************************************************************************)
(* C9: on the CSV panel, for an uploaded file that pd.read_csv parses: if   *)
(* a required column is absent, the error of line 1049 reports exactly the *)
(* absent columns and the rerun offers no processing button, validates no  *)
(* row, computes no forecast and offers no download of results; if all     *)
(* seven are present, the processing button is offered.  For a file that   *)
(* pd.read_csv does not parse, the error of line 1206 is shown instead,    *)
(* and nothing else is reachable either.                                   *)
(***************************************************************************)
Required == Range(required_columns)

NoProcessing ==
    /\ page.previsoes = EmptySeries
    /\ \A i \in DOMAIN page.trace :
          LET e == page.trace[i]
          IN  /\ ~(e.kind = "button" /\ e.line = 1089)
              /\ ~(e.kind = "call" /\ e.line \in {1097, 1115})
              /\ e.kind # "forecast"
              /\ ~(e.kind = "download" /\ e.line \in {1184, 1192})

MissingReported ==
    LET absent == Required \ widgets.uploaded_file.columns
    IN  /\ InSeq(Elem("error", 1049, Cardinality(absent)), page.trace)
        /\ Range(page.missing) = absent
        /\ Len(page.missing) = Cardinality(absent)

C9_ColumnCheck ==
    (pc = "app" /\ widgets.opcao = "csv" /\ widgets.uploaded_file.uploaded) =>
        IF ~widgets.uploaded_file.readable
        THEN InSeq(Elem("error", 1206, 0), page.trace) /\ NoProcessing
        ELSE IF Required \ widgets.uploaded_file.columns # {}
        THEN MissingReported /\ NoProcessing
        ELSE InSeq(Elem("button", 1089, 1), page.trace)

C9_Witness ==
    /\ pc = "app"
    /\ widgets.opcao = "csv"
    /\ widgets.uploaded_file.readable
    /\ Required \ widgets.uploaded_file.columns = {"umidade", "rad_solar"}
    /\ page.missing = <<"umidade", "rad_solar">>
    /\ InSeq(Elem("error", 1049, 2), page.trace)
    /\ NoProcessing

\* C9 as stated, for every uploaded file: an absent required column is
\* reported by the error of line 1049.
C9_AnyFile ==
    (pc = "app" /\ widgets.opcao = "csv" /\ widgets.uploaded_file.uploaded) =>
        IF Required \ widgets.uploaded_file.columns # {}
        THEN MissingReported /\ NoProcessing
        ELSE InSeq(Elem("button", 1089, 1), page.trace)

(***************************************************************************)
(* C10: calculate_enhanced_metrics keeps nothing between calls: a call     *)
(* returns what the first call with the same municipality and num_days     *)
(* returned, however many calls were made in between; the in-place scaling *)
(* for num_days > 7 does not reach a later call.                           *)
(***************************************************************************)
C10_MetricsStateless ==
    (pc = "metrics"
       /\ metricsCall.municipio = firstCall.municipio
       /\ metricsCall.num_days = firstCall.num_days)
    => metricsCall.ret = firstCall.ret

\* A third call repeats the first, with num_days > 7, after another call
\* scaled the entry the first one used.
C10_Witness ==
    /\ pc = "metrics"
    /\ metricsCall.count = 3
    /\ metricsCall.municipio = "Outro"
    /\ firstCall.municipio = "Outro"
    /\ metricsCall.num_days = 8
    /\ firstCall.num_days = 8
    /\ metricsCall.ret = [RMSE |-> 2205, MAE |-> 1680, R2 |-> 781]

(***************************************************************************)
(* C11: a forecast the individual panel shows has exactly as many entries  *)
(* as the number input of line 733 holds, between 1 and 30, one per day,   *)
(* the days consecutive and the first one the day of the rerun.            *)
(***************************************************************************)
C11_ForecastLength ==
    (pc = "app" /\ widgets.opcao = "individual" /\ HasForecast(page)) =>
        /\ Len(page.previsoes) = widgets.num_dias
        /\ Len(page.previsoes) \in 1..30
        /\ Len(page.index) = Len(page.previsoes)
        /\ \A i \in DOMAIN page.index : page.index[i] = page.now + (i - 1)

\* The longest forecast the panel allows.
C11_Witness ==
    /\ pc = "app"
    /\ widgets.opcao = "individual"
    /\ HasForecast(page)
    /\ Len(page.previsoes) = 30
    /\ page.index[30] = page.now + 29

(***************************************************************************)
(* C12: a call of generate_enhanced_historical_data that does not end in   *)
(* the handler of line 354 returns exactly num_days rows, one per day up   *)
(* to the day before the call, and every precipitacao is at least 0,       *)
(* whatever the municipality and the random draws.                         *)
(***************************************************************************)
C12_HistoryRows ==
    (pc = "history" /\ hist.ok) =>
        /\ Len(hist.rows) = hist.num_days
        /\ \A i \in DOMAIN hist.rows :
             /\ hist.rows[i].precipitacao >= 0
             /\ hist.rows[i].data = hist.now - hist.num_days + (i - 1)

\* A dry day of a municipality outside the table: the sum of lines
\* 331..333 is negative and the row holds 0.
C12_Witness ==
    /\ pc = "history"
    /\ hist.ok
    /\ hist.municipio = "Outro"
    /\ hist.num_days = MaxHistDays
    /\ Len(hist.rows) = MaxHistDays
    /\ hist.rows[1].umidade < 20000
    /\ hist.rows[1].precipitacao = 0
    /\ hist.rows[2].precipitacao > 0

(***************************************************************************)
(* C13: for 'precipitacao', 'nivel' and 'descarga' and num_days >= 0, the  *)
(* simulated fetch returns num_days daily rows, indexed by 'data', the     *)
(* last one dated the day of the call, with one value column named after   *)
(* data_type; the values are at least 0 for 'precipitacao' and 'nivel'     *)
(* and greater than 0 for 'descarga'.                                      *)
(***************************************************************************)
C13_SimulatedRows ==
    (pc = "simulated" /\ ValidDataType(sim.data_type) /\ sim.num_days >= 0) =>
        /\ sim.raised = ""
        /\ Len(sim.ret.index) = sim.num_days
        /\ Len(sim.ret.values) = sim.num_days
        /\ \A i \in DOMAIN sim.ret.index :
             sim.ret.index[i] = sim.now - sim.num_days + i
        /\ sim.ret.index_name = "data"
        /\ sim.ret.columns = <<sim.data_type>>
        /\ \A i \in DOMAIN sim.ret.values :
             IF sim.data_type = "descarga"
             THEN sim.ret.values[i] > 0
             ELSE sim.ret.values[i] >= 0

\* A river level the clamp of line 39 raised to 0, next to a positive one.
C13_Witness ==
    /\ pc = "simulated"
    /\ sim.data_type = "nivel"
    /\ sim.num_days = MaxSimDays
    /\ sim.ret.index[MaxSimDays] = sim.now
    /\ sim.ret.values[1] = 0
    /\ sim.ret.values[2] > 0

\* The smallest discharge the draws allow.
C13_WitnessDescarga ==
    /\ pc = "simulated"
    /\ sim.data_type = "descarga"
    /\ sim.num_days = 1
    /\ sim.ret.values[1] < 20

(***************************************************************************)
(* C14: the simulated fetch raises ValueError for every data_type other    *)
(* than 'precipitacao', 'nivel' and 'descarga', before it prints or        *)
(* returns anything; it does not raise it for these three; and every      *)
(* tipo_dados of get_list_of_stations is one of the three.                 *)
(***************************************************************************)
C14_DataTypeCheck ==
    pc = "simulated" =>
        /\ sim.data_type \notin {"precipitacao", "nivel", "descarga"} =>
             (sim.raised = "ValueError" /\ ~sim.printed /\ sim.ret = NoFrame)
        /\ (sim.data_type \in {"precipitacao", "nivel", "descarga"} /\ sim.num_days >= 0) =>
             sim.raised = ""
        /\ (sim.data_type \in Range(tipo_dados) /\ sim.num_days >= 0) =>
             (sim.raised = "" /\ sim.printed)

\* A rejected type that differs from an accepted one by a capital only.
C14_Witness ==
    /\ pc = "simulated"
    /\ sim.data_type = "Precipitacao"
    /\ sim.num_days = 1
    /\ sim.raised = "ValueError"
    /\ ~sim.printed

(***************************************************************************)
(* C15: every value calculate_enhanced_metrics returns lies in the ranges  *)
(* the About panel states (lines 1493..1495): RMSE in 2.1..3.2, MAE in     *)
(* 1.6..2.4 and R2 in 0.68..0.82, for any municipality and any num_days.   *)
(***************************************************************************)
C15_MetricsInRange ==
    pc = "metrics" =>
        /\ metricsCall.ret.RMSE \in 2100..3200
        /\ metricsCall.ret.MAE \in 1600..2400
        /\ metricsCall.ret.R2 \in 680..820

\* The literal of lines 361..397 alone is within the stated ranges.
C15_LiteralInRange ==
    \A m \in DOMAIN base_metrics_literal :
        /\ base_metrics_literal[m].RMSE \in 2100..3200
        /\ base_metrics_literal[m].MAE \in 1600..2400
        /\ base_metrics_literal[m].R2 \in 680..820

(***************************************************************************)
(* C16: on the comparison panel the comparison runs (the loop of line 1226 *)
(* and what follows it) exactly when 2 to 5 municipalities are selected;   *)
(* for any other selection the rerun shows the hint of line 1357 and       *)
(* nothing of the comparison.                                              *)
(***************************************************************************)
ComparisonRan ==
    \E i \in DOMAIN page.trace : page.trace[i].line \in 1223..1354

C16_SelectionBounds ==
    (pc = "app" /\ widgets.opcao = "comparativa") =>
        IF Len(widgets.municipios_selecionados) \in 2..5
        THEN ComparisonRan /\ ~InSeq(Elem("info", 1357, 0), page.trace)
        ELSE ~ComparisonRan /\ InSeq(Elem("info", 1357, 0), page.trace)

\* The lower bound alone, which line 1222 tests.
C16_AtLeastTwo ==
    (pc = "app" /\ widgets.opcao = "comparativa") =>
        IF Len(widgets.municipios_selecionados) >= 2
        THEN ComparisonRan /\ ~InSeq(Elem("info", 1357, 0), page.trace)
        ELSE ~ComparisonRan /\ InSeq(Elem("info", 1357, 0), page.trace)

(***************************************************************************)
(* C17: the ANA data fetched before the user opted in is used by the       *)
(* forecast: of two sessions with the same sliders, municipality, period   *)
(* and noise whose fetches returned different tables, both opted in, the   *)
(* forecasts differ.                                                       *)
(***************************************************************************)
OptedInPair ==
    /\ pc = "optin"
    /\ twin.opted
    /\ twin.ana # EmptyFrame
    /\ twin.alt_ana # EmptyFrame
    /\ twin.ana # twin.alt_ana
    /\ HasForecast(page)
    /\ HasForecast(twin.page)

C17_AnaDataUsed == OptedInPair => page.previsoes # twin.page.previsoes

\* What the code does instead: the two sessions never differ in a forecast,
\* and the reruns after the fetch render the same.
C17_ForecastIgnoresAna ==
    (pc = "optin" /\ page.trigger # "buscar_ana") =>
        /\ page.previsoes = twin.page.previsoes
        /\ page.trace = twin.page.trace

\* The confirmation of line 721 is never rendered: the tick causes a rerun
\* in which the button of line 687 returns False.
C17_NoConfirmation ==
    pc = "optin" => \A i \in DOMAIN page.trace : page.trace[i].line # 721

(***************************************************************************)
(* C18: a lookup of a municipality get_municipios_data offers finds the    *)
(* municipality's own entry in municipio_factors, municipio_params and     *)
(* base_metrics; the default of the lookup is taken only for a name the    *)
(* list does not hold.                                                     *)
(***************************************************************************)
C18_OwnEntries ==
    pc = "lookup" =>
        /\ lookup.municipio \in Range(cidade) =>
             (lookup.own /\ lookup.value = TableOf(lookup.table)[lookup.municipio])
        /\ ~lookup.own =>
             (lookup.municipio \notin Range(cidade)
                /\ lookup.value = FallbackOf(lookup.table))

\* The last city of the list, found in the table of the metrics.
C18_Witness ==
    /\ pc = "lookup"
    /\ lookup.municipio = cidade[Len(cidade)]
    /\ lookup.table = "base_metrics"
    /\ lookup.own
    /\ lookup.value # FallbackOf("base_metrics")

(***************************************************************************)
(* C19: of the HTTP requests sent for one (station code, start date, end   *)
(* date) any two are at least ttl apart, whether the earlier one succeeded *)
(* or failed; a call that finds an entry less than ttl old sends nothing   *)
(* and returns what the entry holds (the empty table after a failure); a   *)
(* call that finds none, or one that is ttl old or older, sends one.       *)
(***************************************************************************)
C19_OneRequestPerWindow ==
    pc \in {"input", "cached"} /\ cache # <<>> =>
        /\ \A k \in CacheKeys :
             \A i, j \in DOMAIN cache.log[k] :
                i < j => cache.log[k][j] - cache.log[k][i] >= ttl
        /\ LET c == cache.last
           IN  c.key # <<>> =>
                 IF c.before.stored >= 0 /\ c.time - c.before.stored < ttl
                 THEN c.hit /\ c.requests = 0 /\ c.ret = c.before.ret
                 ELSE ~c.hit /\ c.requests = 1

\* A failed fetch answered from the cache half an hour later, for a key
\* that was requested a second time after its first entry expired.
C19_Witness ==
    /\ pc = "cached"
    /\ Len(cache.log[cache.last.key]) = 2
    /\ cache.last.hit
    /\ cache.last.ret = EmptyFrame
    /\ cache.last.time = cache.last.before.stored + ClockStep
    /\ InSeq(Elem("error", 461, 0), cache.last.msgs)

(***************************************************************************)
(* C20: on the individual panel a rerun calls make_prediction_enhanced     *)
(* (line 785) only if validate_meteorological_data accepted the slider     *)
(* values of that rerun, the generate button being enabled exactly then;   *)
(* and slider values are rejected exactly when temp_min >= temp_max, with  *)
(* that message alone.                                                     *)
(***************************************************************************)
C20_CallOnlyIfValid ==
    pc = "sliders" =>
        LET validation == validate_meteorological_data(dados_validacao(widgets))
        IN  /\ InSeq(Elem("call", 785, 0), page.trace) => validation[1]
            /\ InSeq(Elem("button", 771, 1), page.trace) <=> validation[1]
            /\ InSeq(Elem("button", 771, 0), page.trace) <=> ~validation[1]
            /\ ~validation[1] <=> widgets.temp_min[1] >= widgets.temp_max[1]
            /\ ~validation[1] =>
                 (validation[2] = <<MsgTempOrder>>
                    /\ InSeq(Elem("error", 768, 1), page.trace)
                    /\ ~InSeq(Elem("error", 768, 2), page.trace))

\* The button is disabled and nothing is computed: the sliders are at
\* their extremes and temp_min is above temp_max.
C20_Witness ==
    /\ pc = "sliders"
    /\ widgets.temp_max = F(-100)
    /\ widgets.temp_min = F(400)
    /\ widgets.umidade = F(1000)
    /\ widgets.pressao = F(9500)
    /\ widgets.vel_vento = F(250)
    /\ InSeq(Elem("button", 771, 0), page.trace)
    /\ ~InSeq(Elem("call", 785, 0), page.trace)

\* A forecast computed for accepted values at the extremes of the sliders.
C20_WitnessCall ==
    /\ pc = "sliders"
    /\ widgets.temp_max = F(500)
    /\ widgets.temp_min = F(400)
    /\ widgets.pressao = F(10500)
    /\ InSeq(Elem("call", 785, 0), page.trace)

(***************************************************************************)
(* C21: on the CSV panel, the click on the processing button hands to      *)
(* make_prediction_enhanced exactly the rows validate_meteorological_data  *)
(* accepted; when it accepted none, the error of line 1200 is shown, no    *)
(* forecast is computed and no download is offered; when it accepted some, *)
(* line 1115 is reached, and the forecast is shown unless                  *)
(* make_prediction_enhanced itself reported an error (line 206 or 266).    *)
(***************************************************************************)
Processed ==
    /\ pc = "app"
    /\ widgets.opcao = "csv"
    /\ page.trigger = "processar"

AcceptedRows ==
    {i \in 1..Len(widgets.uploaded_file.rows) :
        validate_meteorological_data(widgets.uploaded_file.rows[i])[1]}

NothingComputed ==
    /\ InSeq(Elem("error", 1200, 0), page.trace)
    /\ ~InSeq(Elem("call", 1115, 0), page.trace)
    /\ ~HasForecast(page)
    /\ page.previsoes = EmptySeries
    /\ \A i \in DOMAIN page.trace : page.trace[i].kind # "download"

FromAcceptedRows ==
    /\ page.df_valid = SelectIdx(widgets.uploaded_file.rows, AcceptedRows)
    /\ InSeq(Elem("call", 1115, 0), page.trace)
    /\ ~InSeq(Elem("error", 1200, 0), page.trace)

PredictionError ==
    \E i \in DOMAIN page.trace :
        page.trace[i].kind = "error" /\ page.trace[i].line \in {206, 266}

C21_ValidRowsOnly ==
    Processed =>
        IF AcceptedRows = {} THEN NothingComputed
        ELSE FromAcceptedRows /\ (HasForecast(page) <=> ~PredictionError)

\* One row of two is rejected and the forecast comes from the other.
C21_Witness ==
    /\ Processed
    /\ Len(widgets.uploaded_file.rows) = 2
    /\ AcceptedRows = {1}
    /\ Len(page.df_valid) = 1
    /\ HasForecast(page)

\* The statement without the exception: whenever a row was accepted, the
\* forecast is produced.
C21_AlwaysProduced ==
    Processed =>
        IF AcceptedRows = {} THEN NothingComputed
        ELSE FromAcceptedRows /\ HasForecast(page)

(***************************************************************************)
(* C22: validate_meteorological_data returns is_valid = True with an empty *)
(* list if and only if every field present is within its inclusive bounds  *)
(* (pressure 800..1100, wind 0..200, humidity 0..100, the temperatures as  *)
(* validate_temperature_range has them, looked at only when both are       *)
(* present); otherwise the list holds exactly one message per violated     *)
(* group, so between 1 and 4 messages, and no group is skipped after an    *)
(* earlier one failed.  A field is present when its key is in the dict; a  *)
(* missing value (NaN) is within no bounds.                                *)
(***************************************************************************)
InBounds(v, lo, hi) == ~IsNaN(v) /\ lo <= v[1] /\ v[1] <= hi

TempViolated(d) ==
    /\ Has(d, "temp_max") /\ Has(d, "temp_min")
    /\ ~InTempRanges(d["temp_max"], d["temp_min"])

FieldViolated(d, k, lo, hi) == Has(d, k) /\ ~InBounds(d[k], lo, hi)

ViolatedGroups(d) ==
    (IF TempViolated(d) THEN {"temp"} ELSE {})
      \cup { k \in {"umidade"} : FieldViolated(d, k, 0, 1000) }
      \cup { k \in {"pressao"} : FieldViolated(d, k, 8000, 11000) }
      \cup { k \in {"vel_vento"} : FieldViolated(d, k, 0, 2000) }

MessagesOf(errors) == { errors[i] : i \in 1..Len(errors) }

OneMessagePerGroup(d, errors) ==
    /\ Len(errors) = Cardinality(ViolatedGroups(d))
    /\ Cardinality(MessagesOf(errors)) = Len(errors)
    /\ "temp" \in ViolatedGroups(d)
         <=> MessagesOf(errors) \cap {MsgTempMax, MsgTempMin, MsgTempOrder} # {}
    /\ "umidade" \in ViolatedGroups(d) <=> MsgUmidade \in MessagesOf(errors)
    /\ "pressao" \in ViolatedGroups(d) <=> MsgPressao \in MessagesOf(errors)
    /\ "vel_vento" \in ViolatedGroups(d) <=> MsgVento \in MessagesOf(errors)

C22_ValidIffInBounds ==
    pc = "validated" =>
        /\ vres[1] <=> vres[2] = <<>>
        /\ vres[1] <=> ViolatedGroups(data) = {}
        /\ OneMessagePerGroup(data, vres[2])
        /\ ~vres[1] => (1 <= Len(vres[2]) /\ Len(vres[2]) <= 4)

\* The same statement for the dicts none of whose values is missing.
NoMissingValue(d) == \A k \in DOMAIN d : ~IsNaN(d[k])

C22_HoldsForNumbers ==
    (pc = "validated" /\ NoMissingValue(data)) =>
        /\ vres[1] <=> vres[2] = <<>>
        /\ vres[1] <=> ViolatedGroups(data) = {}
        /\ OneMessagePerGroup(data, vres[2])

\* All four groups violated at once: four messages.
C22_FourMessages ==
    /\ pc = "validated"
    /\ NoMissingValue(data)
    /\ Len(vres[2]) = 4

(***************************************************************************)
(* C23: a row whose validated field (humidity, pressure, wind speed or a   *)
(* temperature) is missing (NaN) is accepted by                            *)
(* validate_meteorological_data, because every bound comparison with a     *)
(* missing value is false; in the CSV panel such a row is therefore among  *)
(* the rows given to make_prediction_enhanced at line 1115.  A missing     *)
(* field raises no message of its own: the row is accepted when each of    *)
(* its other fields is within its bounds.                                  *)
(***************************************************************************)
ValidatedFields == {"temp_max", "temp_min", "umidade", "pressao", "vel_vento"}

HasMissingField(row) == \E k \in ValidatedFields : IsNaN(row[k])

MissingOr(v, lo, hi) == IsNaN(v) \/ (lo <= v[1] /\ v[1] <= hi)

OtherFieldsInBounds(row) ==
    /\ MissingOr(row.temp_max, -500, 600)
    /\ MissingOr(row.temp_min, -600, 500)
    /\ (IsNaN(row.temp_max) \/ IsNaN(row.temp_min) \/ row.temp_min[1] < row.temp_max[1])
    /\ MissingOr(row.umidade, 0, 1000)
    /\ MissingOr(row.pressao, 8000, 11000)
    /\ MissingOr(row.vel_vento, 0, 2000)

ValidDate(row) == Len(row.data) = 1

LatestRows(df) ==
    {i \in 1..Len(df) :
        /\ ValidDate(df[i])
        /\ \A j \in 1..Len(df) : ValidDate(df[j]) => df[j].data[1] <= df[i].data[1]}

SeriesFromRow(row, p) ==
    Predictions(BasePrecipitation([temp_max |-> row.temp_max, umidade |-> row.umidade,
                                   pressao |-> row.pressao,
                                   mes |-> F(MonthOf(row.data[1]))],
                                  p.municipio),
                p.num_days, p.noise)

FromLatestRow(df, p) == \E i \in LatestRows(df) : p.ret = SeriesFromRow(df[i], p)

C24_LatestDateBaseline ==
    (pc = "ordered" /\ pred.ok) => FromLatestRow(df_input, pred)

\* The same statement for the calls in which create_features_enhanced
\* returns normally.
C24_LatestWhenProcessed ==
    (pc = "ordered" /\ pred.ok /\ ~pred.fe.raised) => FromLatestRow(df_input, pred)

\* The July row comes first, the January row second, with different
\* temperatures: the forecast is that of the July row.
C24_LaterRowFirst ==
    /\ pc = "ordered"
    /\ pred.ok
    /\ ~pred.fe.raised
    /\ Len(df_input) = 2
    /\ df_input[1].data = F(196)
    /\ df_input[2].data = F(15)
    /\ df_input[1].temp_max # df_input[2].temp_max
    /\ pred.ret = SeriesFromRow(df_input[1], pred)
    /\ pred.ret # SeriesFromRow(df_input[2], pred)

(***************************************************************************)
(* C25: the seasonal factor of make_prediction_enhanced is 1.5 for         *)
(* December, January and February, 0.3 for June, July and August and 1.0   *)
(* otherwise, and the baseline is                                          *)
(*   (2 + 8*humidity_factor + 3*temp_factor + 2*pressure_factor            *)
(*      + 2*seasonal_factor) * municipality factor,                        *)
(* the factor being 1.0 for a municipality that is not in the table.  The  *)
(* month is the one the function reads from its base row (6 when the row   *)
(* has no month).  Amounts are in 1/5000 mm and the row's values in        *)
(* tenths, so that humidity_factor = (u - 500) / 500,                      *)
(* temp_factor = (t - 200) / 100 and pressure_factor = (10130 - p) / 200.  *)
(***************************************************************************)
BaseRowOf(p) == p.fe.ret[Len(p.fe.ret)]

MonthRead(row) == IF "mes" \in DOMAIN row THEN row.mes[1] ELSE 6

\* 5000 * 2 * seasonal_factor
Seasonal10000(m) ==
    CASE m \in {12, 1, 2} -> 15000
      [] m \in {6, 7, 8} -> 3000
      [] OTHER -> 10000

\* 10 * municipality factor
Factor10(municipio) ==
    IF municipio \in DOMAIN municipio_factors THEN municipio_factors[municipio] ELSE 10

ClaimedBaseline(row, municipio) ==
    ((10000 + 80 * (row.umidade[1] - 500) + 150 * (row.temp_max[1] - 200)
        + 50 * (10130 - row.pressao[1]) + Seasonal10000(MonthRead(row)))
       * Factor10(municipio)) \div 10

C25_WitnessWinter ==
    /\ pc = "ordered"
    /\ pred.ok
    /\ pred.municipio = "Santos"
    /\ pred.noise = <<0>>
    /\ BaseRowOf(pred).temp_max = F(300)
    /\ MonthRead(BaseRowOf(pred)) = 7
    /\ pred.ret = <<F(35750)>>

(***************************************************************************)
(* C26: in the individual panel, after a successful ANA fetch the user can *)
(* check 'Usar dados da ANA para calibrar a previsao' and so reach a rerun *)
(* in which the confirmation 'Dados da ANA serao usados para melhorar a    *)
(* previsao' (line 721) is displayed: the rerun the tick causes shows it.  *)
(***************************************************************************)
C26_ConfirmationAfterTick ==
    (pc = "app" /\ page.trigger = "usar_dados_ana") =>
        InSeq(Elem("info", 721, 0), page.trace)

\* What the code does instead: no rerun of a session displays the
\* confirmation, whatever the user does after the tick, and no rerun renders
\* the checkbox ticked.
C26_NeverConfirmed ==
    pc = "app" =>
        /\ \A i \in DOMAIN page.trace : page.trace[i].line # 721
        /\ ~InSeq(Elem("checkbox", 720, 1), page.trace)
        /\ ~widgets.usar_dados_ana

\* The checkbox was shown after a fetch that returned records, and ticked.
C26_Ticked ==
    /\ pc = "app"
    /\ page.trigger = "usar_dados_ana"
    /\ InSeq(Elem("button", 687, 1), page.trace)
    /\ ~InSeq(Elem("call", 689, 0), page.trace)

(***************************************************************************)
(* C27: an HTTP request is issued only with a station code taken from the  *)
(* list search_ana_stations returned for the currently selected            *)
(* municipality.  That list depends only on the name of the municipality   *)
(* (the state argument is ignored) and is non-empty only for Itirapina,    *)
(* Santos, Cuiaba and Natal; for every other municipality the app offers,  *)
(* the page has no fetch button and no request is made.                    *)
(***************************************************************************)
ClaimedStations(municipio) ==
    CASE municipio = "Itirapina" -> {"12345000"}
      [] municipio = "Santos" -> {"12345001", "12345002"}
      [] municipio = "Cuiaba" -> {"12345003"}
      [] municipio = "Natal" -> {"12345004"}
      [] OTHER -> {}

States == { estado[m] : m \in DOMAIN estado }

\* The municipality of the panel shown, where the panel has one.
PanelMunicipio ==
    IF widgets.opcao = "individual" THEN widgets.municipio_selecionado
    ELSE widgets.municipio_ana

Requested ==
    \/ InSeq(Elem("call", 689, 0), page.trace)
    \/ InSeq(Elem("call", 1413, 0), page.trace)

FetchOffered ==
    \/ InSeq(Elem("button", 687, 1), page.trace)
    \/ InSeq(Elem("button", 1411, 1), page.trace)

C27_RequestOnlyForListedStation ==
    pc = "app" =>
        /\ \A m \in Range(cidade) : \A e \in States :
             Range(search_ana_stations(m, e)) = ClaimedStations(m)
        /\ Requested =>
             /\ widgets.opcao \in {"individual", "ana"}
             /\ page.trigger \in {"buscar_ana", "buscar_estacao"}
             /\ widgets.estacao_selecionada \in ClaimedStations(PanelMunicipio)
        /\ (widgets.opcao \in {"individual", "ana"} /\ ClaimedStations(PanelMunicipio) = {})
             => (~FetchOffered /\ ~Requested)

\* The second station of Santos is selected and fetched.
C27_Witness ==
    /\ pc = "app"
    /\ Requested
    /\ PanelMunicipio = "Santos"
    /\ widgets.estacao_selecionada = "12345002"

\* Campinas is selected: the page offers no fetch.
C27_WitnessNoStation ==
    /\ pc = "app"
    /\ widgets.opcao = "individual"
    /\ widgets.municipio_selecionado = "Campinas"
    /\ InSeq(Elem("info", 723, 0), page.trace)
    /\ ~FetchOffered

====
